---- MODULE Spec2Model ----
(***************************************************************************)
(* Model of music_assistant/controllers/config.py (ConfigController): the  *)
(* path-addressed configuration store, its debounced persistence and the   *)
(* provider / player configuration lifecycle.                              *)
(*                                                                         *)
(* The in-memory tree _data is a function from paths (sequences of key     *)
(* segments, the result of key.split("/")) to node tags: "MAP" for a       *)
(* nested mapping, any other string for a scalar leaf.  The root mapping   *)
(* is the path << >>.                                                      *)
(***************************************************************************)
EXTENDS Integers, Sequences, FiniteSets, TLC

VARIABLES
    data,         \* ConfigController._data
    timerHandle,  \* ConfigController._timer_handle: "none" | "pending" | "fired"
    liveTimers,   \* call_later callbacks scheduled in the loop, not cancelled, not fired
    tasks,        \* _async_save coroutines in flight: task id -> position
    primary,      \* settings.json
    backup,       \* settings.json.backup
    loaded,       \* mass providers: instance ids that are loaded
    available,    \* loaded providers whose .available is True
    registered,   \* mass.players: player id -> provider instance id, or "none"
    op,           \* the lifecycle call in progress, per caller
    req,          \* history: the save request window in progress
    stopped,      \* history: the callers have stopped mutating the store
    ctl,          \* position of setup() / _load() / close(), and what _load() found
    hist,         \* history: the latest durable write and the crash of the process
    probe,        \* history: the keys set() was called with, and the latest get()
    valueCache    \* ConfigController._value_cache: instance id -> cached value of key k

vars == <<data, timerHandle, liveTimers, tasks, primary, backup,
          loaded, available, registered, op, req, stopped, ctl, hist, probe,
          valueCache>>

saveVars == <<timerHandle, liveTimers, req, valueCache>>
fileVars == <<tasks, primary, backup>>
massVars == <<loaded, available, registered>>
auxVars == <<ctl, hist, probe>>

-----------------------------------------------------------------------------
(* Bounds *)

MaxTasks == 2      \* _async_save coroutines in flight at once
MaxCalls == 2      \* save() calls counted in one debounce window

-----------------------------------------------------------------------------
(* Path store: get / set / remove *)

CONF_PROVIDERS == "providers"
CONF_PLAYERS == "players"
CONF_PLAYER_DSP == "player_dsp"
CONF_ONBOARD_DONE == "onboard_done"

EmptyTree == (<< >> :> "MAP")

Leaf(v) == (<< >> :> v)

IsPrefix(p, q) == Len(p) <= Len(q) /\ SubSeq(q, 1, Len(p)) = p

Tail2(q, n) == SubSeq(q, n + 1, Len(q))

\* the value stored at p, as a tree of its own
Subtree(d, p) ==
    LET below == {q \in DOMAIN d : IsPrefix(p, q)}
    IN  [r \in {Tail2(q, Len(p)) : q \in below} |-> d[p \o r]]

\* the keys of the mapping at p
Keys(d, p) == {q[Len(p) + 1] : q \in {x \in DOMAIN d : IsPrefix(p, x) /\ Len(x) = Len(p) + 1}}

\* Python type of a stored node, by its tag
IntTags == {"0", "44100"}
ListTags == {"[]", "[b]", "[always]", "[ip1]", "[ip1;ip2]", "[44100;16]", "[[44100,16]]"}

NodeKind(v) ==
    CASE v = "MAP" -> "dict"
      [] v = "null" -> "NoneType"
      [] v \in {"T", "F"} -> "bool"
      [] v \in IntTags -> "int"
      [] v \in ListTags -> "list"
      [] OTHER -> "str"

\* subkey in parent, for a parent that is a str (substring) or a list (element)
Contains(v, subkey) == <<v, subkey>> \in {<<"xbx", "b">>, <<"[b]", "b">>}

\* get(): walk the subkeys from parent; the last one is read with
\* parent.get(subkey, default), and a stored null is replaced by the default.
\* A parent that is no mapping has no .get (AttributeError), and
\* "subkey not in parent" / parent[subkey] raise TypeError on it unless it
\* is a str or list that does not contain the subkey
RECURSIVE GetWalk(_, _, _, _)
GetWalk(d, parent, subkeys, default) ==
    LET subkey == Head(subkeys)
        child == Append(parent, subkey)
        kind == NodeKind(d[parent])
    IN  IF Len(subkeys) = 1
        THEN IF kind # "dict"
             THEN "AttributeError"
             ELSE IF child \in DOMAIN d /\ d[child] # "null" THEN d[child] ELSE default
        ELSE IF kind \in {"NoneType", "bool", "int"}
             THEN "TypeError"
             ELSE IF kind \in {"str", "list"}
                  THEN IF Contains(d[parent], subkey) THEN "TypeError" ELSE default
                  ELSE IF child \notin DOMAIN d
                       THEN default
                       ELSE GetWalk(d, child, Tail(subkeys), default)

Get(d, key, default) == GetWalk(d, << >>, key, default)

\* Python truth value of get(key): absent, null, an empty mapping, "", 0 and
\* False are all falsy
Truthy(d, key) ==
    LET v == Get(d, key, "null")
    IN  /\ v \notin {"null", "", "0", "F", "[]"}
        /\ v = "MAP" => Keys(d, key) # {}

\* set(): parent.setdefault(subkey, {}) on the way down
SetDefaultMaps(d, key) ==
    LET pre == {SubSeq(key, 1, i) : i \in 1..(Len(key) - 1)} \ DOMAIN d
    IN  [q \in DOMAIN d \cup pre |-> IF q \in DOMAIN d THEN d[q] ELSE "MAP"]

\* set(): parent[subkey] = value, replacing whatever was stored there
Graft(d, key, value) ==
    LET keep == {q \in DOMAIN d : ~IsPrefix(key, q)}
        new == {key \o r : r \in DOMAIN value}
    IN  [q \in keep \cup new |-> IF q \in new THEN value[Tail2(q, Len(key))] ELSE d[q]]

TreeSet(d, key, value) == Graft(SetDefaultMaps(d, key), key, value)

\* set(): setdefault and the item assignment work on mappings only; on a
\* stored scalar, null or sequence they raise before anything is changed
CanSet(d, key) ==
    \A i \in 1..(Len(key) - 1) :
        SubSeq(key, 1, i) \in DOMAIN d => d[SubSeq(key, 1, i)] = "MAP"

\* remove(): every subkey must be present, else remove() returns before save()
CanRemove(d, key) == \A i \in 1..Len(key) : SubSeq(key, 1, i) \in DOMAIN d

TreeRemoveKept(d, key) == d

TreeRemove(d, key) ==
    IF CanRemove(d, key)
    THEN [q \in {x \in DOMAIN d : ~IsPrefix(key, x)} |-> d[q]]
    ELSE d

-----------------------------------------------------------------------------
(* Debounced save *)

\* the provider instances whose values are read one by one
CachedIds == {"demo"}

\* self._value_cache = {}; "none" stands for a cache key that is not there
EmptyCache == [i \in CachedIds |-> "none"]

NoReq == [kind |-> "none", calls |-> 0, tasks |-> 0, cancelled |-> FALSE]

\* save() without the cancel: the timer armed before stays in the loop
LiveWithoutCancel(handle, live) == live

\* save(): the cancel of the pending timer
LiveAfterCancel(handle, live) == IF handle = "pending" THEN live - 1 ELSE live

FreeTasks == {t \in 1..MaxTasks : tasks[t] = "free"}

\* n successive calls of save(immediate=False): each cancels the pending timer
\* and arms a new one
RECURSIVE LiveAfterSaves(_, _, _)
LiveAfterSaves(handle, live, n) ==
    IF n = 0
    THEN live
    ELSE LiveAfterSaves("pending", LiveAfterCancel(handle, live) + 1, n - 1)

\* history of the debounce window: a call while no timer is pending opens a
\* window, a call while one is pending joins it
RECURSIVE ReqAfterSaves(_, _, _)
ReqAfterSaves(r, live, n) ==
    IF n = 0
    THEN r
    ELSE ReqAfterSaves(
            IF r.kind = "sched" /\ live > 0
            THEN [r EXCEPT !.calls = IF @ < MaxCalls THEN @ + 1 ELSE @]
            ELSE [kind |-> "sched", calls |-> 1, tasks |-> 0, cancelled |-> FALSE],
            1, n - 1)

\* save(immediate=False), as called at the end of set() and remove(), n times
ScheduleSaves(n) ==
    IF n = 0
    THEN UNCHANGED <<timerHandle, liveTimers, req, valueCache>>
    ELSE /\ valueCache' = EmptyCache
         /\ timerHandle' = "pending"
         /\ liveTimers' = LiveAfterSaves(timerHandle, liveTimers, n)
         /\ req' = ReqAfterSaves(req, liveTimers, n)

ScheduleSave == ScheduleSaves(1)

\* save(immediate=True): create_task(self._async_save())
SaveNow ==
    /\ ~stopped
    /\ FreeTasks # {}
    /\ valueCache' = EmptyCache
    /\ timerHandle' = "none"
    /\ liveTimers' = LiveAfterCancel(timerHandle, liveTimers)
    /\ tasks' = [tasks EXCEPT ![CHOOSE t \in FreeTasks : TRUE] = "isfile"]
    /\ req' = [kind |-> "now", calls |-> 1, tasks |-> 1,
               cancelled |-> (timerHandle = "pending")]
    /\ UNCHANGED <<data, primary, backup, massVars, op, stopped, auxVars>>

\* the loop runs the call_later callback: mass.create_task(self._async_save);
\* _timer_handle keeps referring to the handle that has fired
TimerFire ==
    /\ liveTimers > 0
    /\ FreeTasks # {}
    /\ liveTimers' = liveTimers - 1
    /\ timerHandle' = IF liveTimers = 1 THEN "fired" ELSE timerHandle
    /\ tasks' = [tasks EXCEPT ![CHOOSE t \in FreeTasks : TRUE] = "isfile"]
    /\ req' = [req EXCEPT !.tasks = @ + 1]
    /\ UNCHANGED <<data, primary, backup, massVars, op, stopped, auxVars, valueCache>>

-----------------------------------------------------------------------------
(* _async_save: one step per await *)

NoFile == [exists |-> FALSE, complete |-> FALSE, tree |-> EmptyTree]

\* a write that truncates the file and leaves it empty
WrittenEmpty(d) == [exists |-> TRUE, complete |-> FALSE, tree |-> EmptyTree]

\* json_dumps(self._data) written through a freshly truncated file
Written(d) == [exists |-> TRUE, complete |-> TRUE, tree |-> d]

\* history of the durable writes: the primary file as the latest write found
\* it, whether that write ran without another coroutine stepping in between,
\* whether it has finished, and the tree last written to or loaded from the
\* files.  crashed, safe and gens are set by the crash of the process
NoHist == [before |-> NoFile, solo |-> TRUE, done |-> TRUE, synced |-> EmptyTree,
           crashed |-> FALSE, safe |-> FALSE, gens |-> {}]

\* no other _async_save coroutine has taken a step and not finished
Alone(t) == \A u \in (1..MaxTasks) \ {t} : tasks[u] \in {"free", "isfile"}

\* the history follows a write only while it runs alone: once another
\* coroutine steps in between, what was recorded of the write is dropped
Overlapped(h) == [h EXCEPT !.before = NoFile, !.solo = FALSE, !.done = FALSE,
                           !.synced = EmptyTree]

\* the history after a step of coroutine t that leaves it as h
Track(t, h) == IF hist.solo /\ Alone(t) THEN h ELSE Overlapped(hist)

\* a rename that loses the file
RenameLost(f) == NoFile

\* os.rename: the backup path now names what the primary path named
Renamed(f) == f

\* aiofiles.open(self.filename, "w"): the file exists and is empty
Truncated == [exists |-> TRUE, complete |-> FALSE, tree |-> EmptyTree]

\* await isfile(self.filename)
SaveIsFile(t) ==
    /\ tasks[t] = "isfile"
    /\ tasks' = [tasks EXCEPT ![t] = IF primary.exists THEN "isfile_backup" ELSE "open"]
    /\ hist' = IF Alone(t)
               THEN [hist EXCEPT !.before = primary, !.solo = TRUE, !.done = FALSE]
               ELSE Overlapped(hist)
    /\ UNCHANGED <<data, primary, backup, saveVars, massVars, op, stopped, ctl, probe>>

\* await isfile(filename_backup)
SaveIsFileBackup(t) ==
    /\ tasks[t] = "isfile_backup"
    /\ tasks' = [tasks EXCEPT ![t] = IF backup.exists THEN "remove" ELSE "rename"]
    /\ hist' = Track(t, hist)
    /\ UNCHANGED <<data, primary, backup, saveVars, massVars, op, stopped, ctl, probe>>

\* await remove(filename_backup): FileNotFoundError ends the coroutine
SaveRemoveBackup(t) ==
    /\ tasks[t] = "remove"
    /\ IF backup.exists
       THEN /\ backup' = NoFile
            /\ tasks' = [tasks EXCEPT ![t] = "rename"]
       ELSE /\ backup' = backup
            /\ tasks' = [tasks EXCEPT ![t] = "free"]
    /\ hist' = Track(t, hist)
    /\ UNCHANGED <<data, primary, saveVars, massVars, op, stopped, ctl, probe>>

\* await rename(self.filename, filename_backup): FileNotFoundError ends the coroutine
SaveRename(t) ==
    /\ tasks[t] = "rename"
    /\ IF primary.exists
       THEN /\ backup' = Renamed(primary)
            /\ primary' = NoFile
            /\ tasks' = [tasks EXCEPT ![t] = "open"]
       ELSE /\ UNCHANGED <<primary, backup>>
            /\ tasks' = [tasks EXCEPT ![t] = "free"]
    /\ hist' = Track(t, hist)
    /\ UNCHANGED <<data, saveVars, massVars, op, stopped, ctl, probe>>

\* async with aiofiles.open(self.filename, "w")
SaveOpen(t) ==
    /\ tasks[t] = "open"
    /\ primary' = Truncated
    /\ tasks' = [tasks EXCEPT ![t] = "write"]
    /\ hist' = Track(t, hist)
    /\ UNCHANGED <<data, backup, saveVars, massVars, op, stopped, ctl, probe>>

\* await _file.write(json_dumps(self._data)), and the file is closed
SaveWrite(t) ==
    /\ tasks[t] = "write"
    /\ primary' = Written(data)
    /\ tasks' = [tasks EXCEPT ![t] = "free"]
    /\ hist' = Track(t, [hist EXCEPT !.done = TRUE, !.synced = data])
    /\ UNCHANGED <<data, backup, saveVars, massVars, op, stopped, ctl, probe>>

AsyncSaveStep(t) ==
    \/ SaveIsFile(t)
    \/ SaveIsFileBackup(t)
    \/ SaveRemoveBackup(t)
    \/ SaveRename(t)
    \/ SaveOpen(t)
    \/ SaveWrite(t)

-----------------------------------------------------------------------------
(* Provider manifests, as returned by mass.get_provider_manifests() *)

Manifests == {"demo", "plr", "bi", "dep"}

\* domains a caller may name; "gone" has no manifest
Domains == {"demo", "plr", "bi", "gone"}

ManifestType(dom) == IF dom = "plr" THEN "player" ELSE "music"

MultiInstance(dom) == dom = "plr"

Builtin(dom) == dom = "bi"

AllowDisable(dom) == dom # "bi"

DependsOn(dom) == IF dom = "dep" THEN "demo" ELSE "none"

\* shortuuid.random(8)
Suffixes == {"a", "b"}

\* f"{manifest.domain}--{shortuuid.random(8)}" or manifest.domain
NewInstanceId(dom, sfx) ==
    IF MultiInstance(dom)
    THEN (IF sfx = "a" THEN "plr--a" ELSE "plr--b")
    ELSE dom

\* the domain of a loaded provider instance
InstanceDomain(iid) == IF iid \in {"plr--a", "plr--b"} THEN "plr" ELSE iid

PlayerIds == {"pl1", "pl2"}

\* mass.get_provider(instance_id or domain)
GetProvider(x) == \E i \in available : i = x \/ InstanceDomain(i) = x

-----------------------------------------------------------------------------
(* Entities and their raw form in the store *)

ProviderKey(iid) == <<CONF_PROVIDERS, iid>>
PlayerKey(p) == <<CONF_PLAYERS, p>>
DspKey(p) == <<CONF_PLAYER_DSP, p>>

BoolTag(b) == IF b THEN "T" ELSE "F"

NoCfg == [iid |-> "none", domain |-> "none", type |-> "none", enabled |-> FALSE, k |-> "none"]

\* ProviderConfig.to_raw()
ProviderRaw(cfg) ==
    LET base == (<< >> :> "MAP") @@ (<<"type">> :> cfg.type)
                @@ (<<"domain">> :> cfg.domain) @@ (<<"instance_id">> :> cfg.iid)
                @@ (<<"enabled">> :> BoolTag(cfg.enabled)) @@ (<<"values">> :> "MAP")
    IN  IF cfg.k = "none" THEN base ELSE base @@ (<<"values", "k">> :> cfg.k)

\* ProviderConfig.parse(config_entries, raw_conf)
ParseProvider(d, iid) ==
    [iid |-> iid,
     domain |-> Get(d, ProviderKey(iid) \o <<"domain">>, "null"),
     type |-> Get(d, ProviderKey(iid) \o <<"type">>, "null"),
     enabled |-> Get(d, ProviderKey(iid) \o <<"enabled">>, "T") = "T",
     k |-> Get(d, ProviderKey(iid) \o <<"values", "k">>, "none")]

\* get_provider_configs(provider_domain=dom): the instance ids
ProviderConfigsOf(d, dom) ==
    {iid \in Keys(d, <<CONF_PROVIDERS>>) :
        /\ Get(d, ProviderKey(iid) \o <<"domain">>, "null") = dom
        /\ dom \in Manifests}

\* PlayerConfig(values={}, provider, player_id, enabled, default_name).to_raw()
PlayerRaw(p, iid) ==
    (<< >> :> "MAP") @@ (<<"provider">> :> iid) @@ (<<"player_id">> :> p)
    @@ (<<"default_name">> :> "name")

\* DSPConfig.to_dict()
DspRaw == (<< >> :> "MAP") @@ (<<"enabled">> :> "T")

\* the values dict of a save call: "keep" stands for a key that is not supplied
NoVals == [enabled |-> "keep", k |-> "keep"]
AddValues == {[enabled |-> "keep", k |-> x] : x \in {"keep", "v1", "bad"}}
UpdateValues == {[enabled |-> e, k |-> x] : e \in {"keep", "T", "F"}, x \in {"keep", "v1", "bad"}}

\* config.update(values): the config with the supplied keys replaced
ApplyUpdate(cfg, vals) ==
    [cfg EXCEPT !.enabled = IF vals.enabled = "keep" THEN @ ELSE vals.enabled = "T",
                !.k = IF vals.k = "keep" THEN @ ELSE vals.k]

\* config.update(values): the changed keys
ChangedKeys(cfg, vals) ==
    {x \in {"enabled", "values/k"} :
        \/ x = "enabled" /\ vals.enabled # "keep" /\ (vals.enabled = "T") # cfg.enabled
        \/ x = "values/k" /\ vals.k # "keep" /\ vals.k # cfg.k}

\* config.validate() passes
Valid(cfg) == cfg.k # "bad"

-----------------------------------------------------------------------------
(* Lifecycle calls: one record per caller, one step per suspension point *)

Idle == [pc |-> "idle", kind |-> "none", iid |-> "none", vals |-> NoVals,
         cfg |-> NoCfg, before |-> EmptyTree, loadedBefore |-> {}, saves |-> 0,
         acts |-> 0,
         unloads |-> 0, err |-> "none", noop |-> FALSE, out |-> "none",
         ret |-> EmptyTree]

Callers == DOMAIN op

AllIdle == \A c \in Callers : op[c].pc = "idle"

Raise(o, e) == [o EXCEPT !.pc = "raised", !.err = e]

\* the call returns or its exception has propagated to the caller
Return(c) ==
    /\ op[c].pc \in {"done", "raised"}
    /\ op' = [op EXCEPT ![c] = Idle]
    /\ UNCHANGED <<data, saveVars, fileVars, massVars, stopped, auxVars>>

\* save_provider_config: self.set(CONF_ONBOARD_DONE, True) after the add or update returned
MarkOnboardDone(d) == TreeSet(d, <<CONF_ONBOARD_DONE>>, Leaf("T"))

\* the set() placed before config.validate()
AddStoreUnvalidated(d, cfg) == TreeSet(d, ProviderKey(cfg.iid), ProviderRaw(cfg))

\* the set() placed after the call of load_provider_config
AddStoreDeferred(d, cfg) == d

\* _add_provider_config: config.validate() and self.set(conf_key, config.to_raw())
AddStore(d, cfg) ==
    IF Valid(cfg) THEN TreeSet(d, ProviderKey(cfg.iid), ProviderRaw(cfg)) ELSE d

\* the except branch without its self.remove(conf_key)
AddRollbackSkipped(d, cfg) == d

\* _add_provider_config: self.remove(conf_key) when load_provider_config raised
AddRollback(d, cfg) == TreeRemove(d, ProviderKey(cfg.iid))

\* an add that does not look at the manifest's depends_on
AddRefusalNoDependency(d, dom) ==
    IF dom \notin Manifests THEN "UnknownDomain"
    ELSE IF ProviderConfigsOf(d, dom) # {} /\ ~MultiInstance(dom)
    THEN "MultiInstanceForbidden"
    ELSE "none"

\* an add that does not look at the manifest's multi_instance
AddRefusalNoSingle(d, dom) ==
    IF dom \notin Manifests THEN "UnknownDomain"
    ELSE IF DependsOn(dom) # "none" /\ ~GetProvider(DependsOn(dom))
    THEN "DependencyUnmet"
    ELSE "none"

\* _add_provider_config: the exception raised before an instance id is made,
\* "none" when the add goes on
AddRefusal(d, dom) ==
    IF dom \notin Manifests THEN "UnknownDomain"
    ELSE IF DependsOn(dom) # "none" /\ ~GetProvider(DependsOn(dom))
    THEN "DependencyUnmet"
    ELSE IF ProviderConfigsOf(d, dom) # {} /\ ~MultiInstance(dom)
    THEN "MultiInstanceForbidden"
    ELSE "none"

\* _add_provider_config up to the await of get_provider_config_entries
AddBegin(c, dom, vals, sfx) ==
    /\ op[c].pc = "idle"
    /\ LET iid == NewInstanceId(dom, sfx)
           o == [Idle EXCEPT !.kind = "add", !.vals = vals, !.before = data,
                             !.loadedBefore = loaded,
                             !.cfg = [NoCfg EXCEPT !.domain = dom]]
       IN  op' = [op EXCEPT ![c] =
                IF AddRefusal(data, dom) # "none"
                THEN Raise(o, AddRefusal(data, dom))
                ELSE [o EXCEPT !.pc = "add_entries", !.iid = iid,
                               !.cfg = [iid |-> iid, domain |-> dom,
                                        type |-> ManifestType(dom), enabled |-> TRUE,
                                        k |-> IF vals.k = "keep" THEN "none" ELSE vals.k]]]
    /\ UNCHANGED <<data, saveVars, fileVars, massVars, stopped, auxVars>>

\* _add_provider_config: validate, persist, call load_provider_config
AddPersist(c) ==
    /\ op[c].pc = "add_entries"
    /\ data' = AddStore(data, op[c].cfg)
    /\ IF Valid(op[c].cfg)
       THEN /\ ScheduleSaves(1)
            /\ op' = [op EXCEPT ![c].pc = "add_loading", ![c].saves = @ + 1,
                                ![c].acts = @ + 1]
       ELSE /\ ScheduleSaves(0)
            /\ op' = [op EXCEPT ![c] = Raise(@, "InvalidConfig")]
    /\ UNCHANGED <<fileVars, massVars, stopped, auxVars>>

\* load_provider_config returns or raises; on return save_provider_config goes on
AddLoaded(c, ok) ==
    /\ op[c].pc = "add_loading"
    /\ IF ok
       THEN /\ loaded' = loaded \cup {op[c].iid}
            /\ available' = available \cup {op[c].iid}
            /\ data' = MarkOnboardDone(data)
            /\ ScheduleSaves(1)
            /\ op' = [op EXCEPT ![c].pc = "done", ![c].saves = @ + 1]
       ELSE /\ UNCHANGED <<loaded, available>>
            /\ data' = AddRollback(data, op[c].cfg)
            /\ ScheduleSaves(IF CanRemove(data, ProviderKey(op[c].iid)) THEN 1 ELSE 0)
            /\ op' = [op EXCEPT ![c] = Raise(
                        [@ EXCEPT !.saves = IF CanRemove(data, ProviderKey(op[c].iid))
                                            THEN @ + 1 ELSE @],
                        "ActivationFailed")]
    /\ UNCHANGED <<fileVars, registered, stopped, auxVars>>

\* _update_provider_config: nothing changed and enabled matches the availability
UpdateIsNoop(cfg, vals, avail) ==
    ChangedKeys(cfg, vals) = {} /\ ApplyUpdate(cfg, vals).enabled = avail

\* _update_provider_config: config.validate() and self.set(conf_key, raw_conf)
UpdateStore(d, new) ==
    IF Valid(new) THEN TreeSet(d, ProviderKey(new.iid), ProviderRaw(new)) ELSE d

\* an update that removes the config when load_provider_config raised
UpdateRollback(d, cfg) == TreeRemove(d, ProviderKey(cfg.iid))

\* _update_provider_config: load_provider_config raised; the exception propagates
UpdateOnLoadError(d, cfg) == d

\* an update that unloads no dependent provider
NoDependents(dom) == {}

\* providers loaded whose manifest depends on dom
Dependents(dom) == {i \in loaded : DependsOn(InstanceDomain(i)) = dom}

\* players registered in mass.players for a provider instance
PlayersOf(iid) == {p \in PlayerIds : registered[p] = iid}

\* _update_provider_config: config = await self.get_provider_config(instance_id)
UpdateBegin(c, iid, vals) ==
    /\ op[c].pc = "idle"
    /\ LET o == [Idle EXCEPT !.kind = "update", !.iid = iid, !.vals = vals,
                             !.before = data, !.loadedBefore = loaded]
           cfg == ParseProvider(data, iid)
       IN  op' = [op EXCEPT ![c] =
                IF ~Truthy(data, ProviderKey(iid))
                THEN Raise(o, "NotFound")
                ELSE IF cfg.domain \notin Manifests
                THEN Raise(o, "UnknownDomain")
                ELSE [o EXCEPT !.pc = "upd_entries", !.cfg = cfg]]
    /\ UNCHANGED <<data, saveVars, fileVars, massVars, stopped, auxVars>>

\* _update_provider_config from config.update(values) to the next await, and the
\* rest of save_provider_config when it returns at once
UpdateApply(c) ==
    /\ op[c].pc = "upd_entries"
    /\ LET cfg == op[c].cfg
           new == ApplyUpdate(cfg, op[c].vals)
           avail == op[c].iid \in available
       IN  IF UpdateIsNoop(cfg, op[c].vals, avail)
           THEN /\ data' = MarkOnboardDone(data)
                /\ ScheduleSaves(1)
                /\ op' = [op EXCEPT ![c].pc = "done", ![c].noop = TRUE,
                                    ![c].saves = @ + 1]
           ELSE IF ~Valid(new)
           THEN /\ data' = UpdateStore(data, new)
                /\ ScheduleSaves(0)
                /\ op' = [op EXCEPT ![c] = Raise(@, "InvalidConfig")]
           ELSE /\ data' = UpdateStore(data, new)
                /\ ScheduleSaves(1)
                /\ op' = [op EXCEPT ![c] =
                        IF new.enabled
                        THEN [@ EXCEPT !.pc = "upd_loading", !.cfg = new,
                                       !.saves = @ + 1, !.acts = @ + 1]
                        ELSE IF ~AllowDisable(new.domain)
                        THEN Raise([@ EXCEPT !.cfg = new, !.saves = @ + 1],
                                   "DisableNotAllowed")
                        ELSE [@ EXCEPT !.pc = "upd_unloading", !.cfg = new,
                                       !.saves = @ + 1, !.unloads = @ + 1]]
    /\ UNCHANGED <<fileVars, massVars, stopped, auxVars>>

\* load_provider_config returns or raises; on return save_provider_config goes on
UpdateLoaded(c, ok) ==
    /\ op[c].pc = "upd_loading"
    /\ IF ok
       THEN /\ loaded' = loaded \cup {op[c].iid}
            /\ available' = available \cup {op[c].iid}
            /\ data' = MarkOnboardDone(data)
            /\ ScheduleSaves(1)
            /\ op' = [op EXCEPT ![c].pc = "done", ![c].saves = @ + 1]
       ELSE /\ UNCHANGED <<loaded, available>>
            /\ data' = UpdateOnLoadError(data, op[c].cfg)
            /\ ScheduleSaves(0)
            /\ op' = [op EXCEPT ![c] = Raise(@, "ActivationFailed")]
    /\ UNCHANGED <<fileVars, registered, stopped, auxVars>>

\* a disable that leaves the players of the provider in mass.players
UnregisterNone(iid, type) == registered

\* _update_provider_config: mass.players.remove(player_id, cleanup_config=False)
\* for each player of a player provider
UnregisterPlayers(iid, type) ==
    [p \in PlayerIds |-> IF type = "player" /\ registered[p] = iid
                         THEN "none" ELSE registered[p]]

\* _update_provider_config: await unload_provider(dep_prov.instance_id) for one
\* provider that depends on the domain of the provider being disabled
UpdateUnloadDependent(c) ==
    /\ op[c].pc = "upd_unloading"
    /\ \E dep \in Dependents(op[c].cfg.domain) :
            /\ loaded' = loaded \ {dep}
            /\ available' = available \ {dep}
    /\ op' = [op EXCEPT ![c].unloads = @ + 1]
    /\ UNCHANGED <<data, saveVars, fileVars, registered, stopped, auxVars>>

\* no dependent is left: the provider is unloaded, its players leave mass.players
\* (players.remove(player_id, cleanup_config=False)); save_provider_config goes on
UpdateUnloaded(c) ==
    /\ op[c].pc = "upd_unloading"
    /\ Dependents(op[c].cfg.domain) = {}
    /\ loaded' = loaded \ {op[c].iid}
    /\ available' = available \ {op[c].iid}
    /\ registered' = UnregisterPlayers(op[c].iid, op[c].cfg.type)
    /\ data' = MarkOnboardDone(data)
    /\ ScheduleSaves(1)
    /\ op' = [op EXCEPT ![c].pc = "done", ![c].saves = @ + 1]
    /\ UNCHANGED <<fileVars, stopped, auxVars>>

\* remove() of each key of ks
RemoveKeys(d, ks) ==
    [q \in {x \in DOMAIN d : \A k \in ks : ~IsPrefix(k, x)} |-> d[q]]

\* the remove() calls among ks that reach save()
RemoveCount(d, ks) == Cardinality({k \in ks : CanRemove(d, k)})

\* mass.players.remove(player_id, cleanup_config=True) for each player of ps: the
\* config of the player and its DSP config are removed
PlayersRemoveKeys(ps) == {PlayerKey(p) : p \in ps} \cup {DspKey(p) : p \in ps}

\* remove_provider_config: the player configs whose provider is instance_id
PlayerConfsOf(d, iid) ==
    {p \in Keys(d, <<CONF_PLAYERS>>) : Get(d, PlayerKey(p) \o <<"provider">>, "null") = iid}

\* remove_provider_config: "cleanup remaining player configs"
RemainingKeys(d, iid) == {PlayerKey(p) : p \in PlayerConfsOf(d, iid)}

\* the checks without the test of prov_manifest.builtin
RemoveRefusalNoBuiltin(d, iid) ==
    IF ~Truthy(d, ProviderKey(iid)) THEN "NotFound" ELSE "none"

\* remove_provider_config: the checks made before self.remove(conf_key)
RemoveRefusal(d, iid) ==
    IF ~Truthy(d, ProviderKey(iid))
    THEN "NotFound"
    ELSE IF Builtin(ParseProvider(d, iid).domain)
    THEN "RemovalForbidden"
    ELSE "none"

\* remove_provider_config up to the await of unload_provider
RemoveBegin(c, iid) ==
    /\ op[c].pc = "idle"
    /\ LET o == [Idle EXCEPT !.kind = "remove", !.iid = iid, !.before = data,
                             !.loadedBefore = loaded]
           cfg == ParseProvider(data, iid)
       IN  IF RemoveRefusal(data, iid) # "none"
           THEN /\ op' = [op EXCEPT ![c] = Raise(o, RemoveRefusal(data, iid))]
                /\ UNCHANGED <<data, saveVars>>
           ELSE /\ data' = TreeRemove(data, ProviderKey(iid))
                /\ ScheduleSaves(1)
                /\ op' = [op EXCEPT ![c] = [o EXCEPT !.pc = "rm_unloading", !.cfg = cfg,
                                                     !.saves = 1, !.unloads = 1]]
    /\ UNCHANGED <<fileVars, massVars, stopped, auxVars>>

\* unload_provider returned (drop: the unload took the provider's players out of
\* mass.players); then the cleanup of the players and of their configs
RemoveUnloaded(c, drop) ==
    /\ op[c].pc = "rm_unloading"
    /\ LET iid == op[c].iid
           regs == IF drop THEN {} ELSE PlayersOf(iid)
           d1 == RemoveKeys(data, PlayersRemoveKeys(regs))
           n1 == RemoveCount(data, PlayersRemoveKeys(regs))
           d2 == RemoveKeys(d1, RemainingKeys(d1, iid))
           n2 == RemoveCount(d1, RemainingKeys(d1, iid))
       IN  /\ loaded' = loaded \ {iid}
           /\ available' = available \ {iid}
           /\ registered' = [p \in PlayerIds |->
                                IF registered[p] = iid THEN "none" ELSE registered[p]]
           /\ IF op[c].cfg.type = "player"
              THEN /\ data' = d2
                   /\ ScheduleSaves(n1 + n2)
                   /\ op' = [op EXCEPT ![c].pc = "done", ![c].saves = @ + n1 + n2]
              ELSE /\ data' = data
                   /\ ScheduleSaves(0)
                   /\ op' = [op EXCEPT ![c].pc = "done"]
    /\ UNCHANGED <<fileVars, stopped, auxVars>>

\* create_builtin_provider_config(provider_domain), called by the server at startup
CreateBuiltin(dom) ==
    /\ AllIdle
    /\ Builtin(dom)
    /\ ProviderConfigsOf(data, dom) = {}
    /\ \E sfx \in Suffixes :
        data' = TreeSet(data, ProviderKey(NewInstanceId(dom, sfx)),
                        ProviderRaw([iid |-> NewInstanceId(dom, sfx), domain |-> dom,
                                     type |-> ManifestType(dom), enabled |-> TRUE,
                                     k |-> "none"]))
    /\ ScheduleSaves(1)
    /\ UNCHANGED <<fileVars, massVars, op, stopped, auxVars>>

\* a player of a loaded player provider registers: the player manager calls
\* create_default_player_config(player_id, provider, name, enabled)
RegisterPlayer(p, iid) ==
    /\ AllIdle
    /\ iid \in loaded
    /\ ManifestType(InstanceDomain(iid)) = "player"
    /\ registered[p] = "none"
    /\ registered' = [registered EXCEPT ![p] = iid]
    /\ data' = IF Truthy(data, PlayerKey(p))
               THEN TreeSet(data, PlayerKey(p) \o <<"default_name">>, Leaf("name"))
               ELSE TreeSet(data, PlayerKey(p), PlayerRaw(p, iid))
    /\ ScheduleSaves(1)
    /\ UNCHANGED <<fileVars, loaded, available, op, stopped, auxVars>>

\* save_dsp_config(player_id, config)
SaveDspConfig(p) ==
    /\ AllIdle
    /\ data' = TreeSet(data, DspKey(p), DspRaw)
    /\ ScheduleSaves(1)
    /\ UNCHANGED <<fileVars, massVars, op, stopped, auxVars>>

\* get_provider_config_value: conf.values[key].value, or the default value of
\* the entry when that is None
ResolveValue(cfg) == IF cfg.k = "none" THEN "dflt" ELSE cfg.k

\* get_provider_config_value up to the await in get_provider_config: a cached
\* value is returned at once; else raw_conf is read from the store
GetValueBegin(c, iid) ==
    /\ op[c].pc = "idle"
    /\ LET o == [Idle EXCEPT !.kind = "get_value", !.iid = iid, !.before = data,
                             !.loadedBefore = loaded]
       IN  op' = [op EXCEPT ![c] =
                IF valueCache[iid] # "none"
                THEN [o EXCEPT !.pc = "done", !.out = valueCache[iid], !.noop = TRUE]
                ELSE IF ~Truthy(data, ProviderKey(iid))
                THEN Raise(o, "NotFound")
                ELSE [o EXCEPT !.pc = "gv_entries", !.cfg = ParseProvider(data, iid)]]
    /\ UNCHANGED <<data, saveVars, fileVars, massVars, stopped, auxVars>>

\* get_provider_config_entries returned: the config is parsed from the raw_conf
\* read before the await, and its value is put into the cache
GetValueResolved(c) ==
    /\ op[c].pc = "gv_entries"
    /\ IF op[c].cfg.domain \notin Manifests
       THEN /\ op' = [op EXCEPT ![c] = Raise(@, "UnknownDomain")]
            /\ UNCHANGED valueCache
       ELSE /\ valueCache' = [valueCache EXCEPT ![op[c].iid] = ResolveValue(op[c].cfg)]
            /\ op' = [op EXCEPT ![c].pc = "done", ![c].out = ResolveValue(op[c].cfg)]
    /\ UNCHANGED <<data, timerHandle, liveTimers, req, fileVars, massVars, stopped,
                   auxVars>>

\* remove_player_config: the exception raised before anything is removed.
\* feature: the player's provider reports ProviderFeature.REMOVE_PLAYER;
\* avail: player.available of a player that mass.players knows
RemovePlayerRefusal(d, p, feature, avail) ==
    IF ~Truthy(d, PlayerKey(p)) THEN "NotFound"
    ELSE IF GetProvider(IF registered[p] # "none" THEN registered[p]
                        ELSE Get(d, PlayerKey(p) \o <<"provider">>, "null"))
    THEN (IF ~feature /\ registered[p] # "none" /\ avail
          THEN "ActionUnavailable" ELSE "none")
    ELSE "none"

\* a removal that leaves the DSP config of the player
RemovePlayerKeysNoDsp(p) == {PlayerKey(p)}

\* remove_player_config: self.remove(conf_key) and self.remove(dsp_conf_key)
RemovePlayerKeys(p) == {PlayerKey(p), DspKey(p)}

\* remove_player_config from mass.players.remove(player_id, cleanup_config=False)
\* to its end; the players here are in no group
RemovePlayerFinish(c, o) ==
    /\ registered' = [registered EXCEPT ![o.iid] = "none"]
    /\ data' = RemoveKeys(data, RemovePlayerKeys(o.iid))
    /\ ScheduleSaves(RemoveCount(data, RemovePlayerKeys(o.iid)))
    /\ op' = [op EXCEPT ![c] = [o EXCEPT !.pc = "done",
                    !.saves = RemoveCount(data, RemovePlayerKeys(o.iid))]]

\* remove_player_config up to the await of player_provider.remove_player, or
\* to its end when the provider is not asked
RemovePlayerBegin(c, p, feature, avail) ==
    /\ op[c].pc = "idle"
    /\ LET o == [Idle EXCEPT !.kind = "remove_player", !.iid = p, !.before = data,
                             !.loadedBefore = loaded]
           prov == IF registered[p] # "none" THEN registered[p]
                   ELSE Get(data, PlayerKey(p) \o <<"provider">>, "null")
       IN  IF RemovePlayerRefusal(data, p, feature, avail) # "none"
           THEN /\ op' = [op EXCEPT ![c] =
                            Raise(o, RemovePlayerRefusal(data, p, feature, avail))]
                /\ UNCHANGED <<data, saveVars, registered>>
           ELSE IF GetProvider(prov) /\ feature
           THEN /\ op' = [op EXCEPT ![c] = [o EXCEPT !.pc = "rmp_removing"]]
                /\ UNCHANGED <<data, saveVars, registered>>
           ELSE RemovePlayerFinish(c, o)
    /\ UNCHANGED <<fileVars, loaded, available, stopped, auxVars>>

\* player_provider.remove_player(player_id) returned or raised
RemovePlayerRemoved(c, ok) ==
    /\ op[c].pc = "rmp_removing"
    /\ IF ok
       THEN RemovePlayerFinish(c, op[c])
       ELSE /\ op' = [op EXCEPT ![c] = Raise(@, "RemovePlayerFailed")]
            /\ UNCHANGED <<data, saveVars, registered>>
    /\ UNCHANGED <<fileVars, loaded, available, stopped, auxVars>>

-----------------------------------------------------------------------------
(* Player configs and DSP configs *)

CONF_DEPRECATED_EQ_BASS == "eq_bass"
CONF_DEPRECATED_EQ_MID == "eq_mid"
CONF_DEPRECATED_EQ_TREBLE == "eq_treble"

DeprecatedEqKeys == {CONF_DEPRECATED_EQ_BASS, CONF_DEPRECATED_EQ_MID, CONF_DEPRECATED_EQ_TREBLE}

BASE_KEYS == {"enabled", "name", "available", "default_name", "provider", "type"}

\* the key set_raw_player_config_value writes to
RawPlayerKey(p, key) ==
    IF key \in BASE_KEYS THEN PlayerKey(p) \o <<key>> ELSE PlayerKey(p) \o <<"values", key>>

\* get_raw_player_config_value(player_id, key, default)
GetRawPlayerValue(d, p, key, default) ==
    Get(d, PlayerKey(p) \o <<"values", key>>, Get(d, PlayerKey(p) \o <<key>>, default))

\* set_raw_player_config_value(player_id, key, value): KeyError when no player
\* config is stored
SetRawPlayerValue(p, key, value) ==
    /\ AllIdle
    /\ IF Truthy(data, PlayerKey(p)) /\ CanSet(data, RawPlayerKey(p, key))
       THEN /\ data' = TreeSet(data, RawPlayerKey(p, key), Leaf(value))
            /\ ScheduleSaves(1)
       ELSE UNCHANGED <<data, saveVars>>
    /\ UNCHANGED <<fileVars, massVars, op, stopped, auxVars>>

\* DSPConfig().to_dict() with enabled = False: no filter.  The list of filters
\* is a node keyed by the index of the filter
DspDefaultRaw ==
    (<< >> :> "MAP") @@ (<<"enabled">> :> "F") @@ (<<"filters">> :> "[]")

\* to_dict() of the enabled DSPConfig with one ToneControlFilter
DspToneRaw(bass, mid, treble) ==
    (<< >> :> "MAP") @@ (<<"enabled">> :> "T") @@ (<<"filters">> :> "MAP")
    @@ (<<"filters", "0">> :> "MAP")
    @@ (<<"filters", "0", "type">> :> "tone_control")
    @@ (<<"filters", "0", "enabled">> :> "T")
    @@ (<<"filters", "0", "bass_level">> :> bass)
    @@ (<<"filters", "0", "mid_level">> :> mid)
    @@ (<<"filters", "0", "treble_level">> :> treble)

\* the deprecated keys whose raw value is not 0
NonZeroEq(d, p) == {key \in DeprecatedEqKeys : GetRawPlayerValue(d, p, key, "0") # "0"}

\* the for loop of get_player_dsp_config: set_raw_player_config_value(key, 0)
\* for every deprecated key whose value is not 0
RECURSIVE ResetEq(_, _, _)
ResetEq(d, p, keys) ==
    IF keys = {} THEN d
    ELSE LET key == CHOOSE x \in keys : TRUE
         IN  ResetEq(TreeSet(d, RawPlayerKey(p, key), Leaf("0")), p, keys \ {key})

\* the config get_player_dsp_config builds from the deprecated values
DspFromDeprecated(d, p) ==
    DspToneRaw(GetRawPlayerValue(d, p, CONF_DEPRECATED_EQ_BASS, "0"),
               GetRawPlayerValue(d, p, CONF_DEPRECATED_EQ_MID, "0"),
               GetRawPlayerValue(d, p, CONF_DEPRECATED_EQ_TREBLE, "0"))

\* a migration that resets the deprecated values and stores no DSP config
DspMigrateUnstored(d, p) == ResetEq(d, p, NonZeroEq(d, p))

\* get_player_dsp_config, migration branch: the deprecated values are reset
\* and self.set(player_dsp/<player_id>, dsp_config.to_dict())
DspMigrate(d, p) ==
    TreeSet(ResetEq(d, p, NonZeroEq(d, p)), DspKey(p), DspFromDeprecated(d, p))

\* get_player_dsp_config(player_id): no await in it
GetPlayerDspConfig(c, p) ==
    /\ op[c].pc = "idle"
    /\ LET o == [Idle EXCEPT !.kind = "get_dsp", !.iid = p, !.before = data,
                             !.loadedBefore = loaded, !.pc = "done"]
       IN  IF Truthy(data, DspKey(p))
           THEN /\ op' = [op EXCEPT ![c] = [o EXCEPT !.ret = Subtree(data, DspKey(p)),
                                                     !.out = "stored"]]
                /\ UNCHANGED <<data, saveVars>>
           ELSE IF NonZeroEq(data, p) # {}
           THEN /\ data' = DspMigrate(data, p)
                /\ ScheduleSaves(Cardinality(NonZeroEq(data, p)) + 1)
                /\ op' = [op EXCEPT ![c] = [o EXCEPT !.ret = DspFromDeprecated(data, p),
                                !.out = "migrated",
                                !.saves = Cardinality(NonZeroEq(data, p)) + 1]]
           ELSE /\ op' = [op EXCEPT ![c] = [o EXCEPT !.ret = DspDefaultRaw,
                                                     !.out = "default"]]
                /\ UNCHANGED <<data, saveVars>>
    /\ UNCHANGED <<fileVars, massVars, stopped, auxVars>>

\* a save_dsp_config that notifies the player before it stores the config
SaveDspStoreDeferred(d, p) == d

\* save_dsp_config: self.set(player_dsp/<player_id>, config.to_dict())
SaveDspStore(d, p) == TreeSet(d, DspKey(p), DspRaw)

\* save_dsp_config up to the await of players.on_player_dsp_change:
\* config.validate() raises, or the config is stored and the player notified
SaveDspBegin(c, p, valid) ==
    /\ op[c].pc = "idle"
    /\ LET o == [Idle EXCEPT !.kind = "save_dsp", !.iid = p, !.before = data,
                             !.loadedBefore = loaded]
       IN  IF ~valid
           THEN /\ op' = [op EXCEPT ![c] = Raise(o, "InvalidConfig")]
                /\ UNCHANGED <<data, saveVars>>
           ELSE /\ data' = SaveDspStore(data, p)
                /\ ScheduleSaves(1)
                /\ op' = [op EXCEPT ![c] = [o EXCEPT !.pc = "dsp_notifying",
                                                     !.saves = 1, !.acts = 1]]
    /\ UNCHANGED <<fileVars, massVars, stopped, auxVars>>

\* on_player_dsp_change returned: signal_event(PLAYER_DSP_CONFIG_UPDATED) and
\* return config; or it raised
SaveDspNotified(c, ok) ==
    /\ op[c].pc = "dsp_notifying"
    /\ op' = [op EXCEPT ![c] = IF ok THEN [@ EXCEPT !.pc = "done", !.out = "dsp_updated"]
                               ELSE Raise(@, "DspChangeFailed")]
    /\ UNCHANGED <<data, saveVars, fileVars, massVars, stopped, auxVars>>

\* the names a player reports as its display_name
DisplayNames == {"name", "name2"}

\* get_player_config for a player in mass.players: raw_conf is the mapping
\* held by the store, so the item assignments change the stored tree
TouchAvailable(d, p, dn) ==
    TreeSet(TreeSet(d, PlayerKey(p) \o <<"default_name">>, Leaf(dn)),
            PlayerKey(p) \o <<"provider">>, Leaf(registered[p]))

\* get_player_config for a player that is not in mass.players
TouchUnavailable(d, p) ==
    LET RawGet(key) == IF PlayerKey(p) \o <<key>> \in DOMAIN d
                       THEN d[PlayerKey(p) \o <<key>>] ELSE "null"
        a == TreeSet(d, PlayerKey(p) \o <<"available">>, Leaf("F"))
        b == TreeSet(a, PlayerKey(p) \o <<"name">>, Leaf(RawGet("name")))
    IN  TreeSet(b, PlayerKey(p) \o <<"default_name">>,
                Leaf(IF RawGet("default_name") \in {"null", "", "0", "F"}
                     THEN RawGet("player_id") ELSE RawGet("default_name")))

\* get_player_config up to the await of prov.get_player_config_entries
GetPlayerConfigBegin(c, p, dn) ==
    /\ op[c].pc = "idle"
    /\ LET o == [Idle EXCEPT !.kind = "get_player", !.iid = p, !.before = data,
                             !.loadedBefore = loaded]
       IN  IF ~Truthy(data, PlayerKey(p))
           THEN /\ op' = [op EXCEPT ![c] = Raise(o, "KeyError")]
                /\ data' = data
           ELSE IF registered[p] # "none"
           THEN /\ data' = TouchAvailable(data, p, dn)
                /\ op' = [op EXCEPT ![c] = [o EXCEPT !.pc = "gpc_entries",
                                                     !.out = "available"]]
           ELSE IF GetProvider(Get(data, PlayerKey(p) \o <<"provider">>, "null"))
           THEN /\ data' = data
                /\ op' = [op EXCEPT ![c] = [o EXCEPT !.pc = "gpc_entries",
                                                     !.out = "unavailable"]]
           ELSE /\ data' = TouchUnavailable(data, p)
                /\ op' = [op EXCEPT ![c] = [o EXCEPT !.pc = "done",
                                                     !.out = "unavailable"]]
    /\ UNCHANGED <<saveVars, fileVars, massVars, stopped, auxVars>>

\* prov.get_player_config_entries returned: PlayerConfig.parse(conf_entries, raw_conf)
GetPlayerConfigEntries(c) ==
    /\ op[c].pc = "gpc_entries"
    /\ data' = IF op[c].out = "unavailable" /\ Truthy(data, PlayerKey(op[c].iid))
               THEN TouchUnavailable(data, op[c].iid) ELSE data
    /\ op' = [op EXCEPT ![c].pc = "done"]
    /\ UNCHANGED <<saveVars, fileVars, massVars, stopped, auxVars>>

-----------------------------------------------------------------------------
(* encrypt_string and decrypt_string.  A string is a sequence of symbols:  *)
(* "M" is the text of ENCRYPT_SUFFIX, "a" any other text.  A Fernet token  *)
(* is url-safe text framed by its version and its signature.               *)

PlainStrings == {<< >>, <<"a">>, <<"a", "M">>, <<"M">>, <<"M", "a">>}

Cipher(x) == IF x = "M" THEN "W" ELSE "A"
Plain(x) == IF x = "W" THEN "M" ELSE "a"

\* self._fernet.encrypt(str_value.encode()).decode()
FernetEncrypt(x) == <<"<">> \o [i \in 1..Len(x) |-> Cipher(x[i])] \o <<">">>

\* the text is a token this key has signed
FernetValid(t) ==
    /\ Len(t) >= 2
    /\ t[1] = "<"
    /\ t[Len(t)] = ">"
    /\ \A i \in 2..(Len(t) - 1) : t[i] \in {"W", "A"}

\* self._fernet.decrypt(...).decode(); InvalidToken for any other text
FernetDecrypt(t) ==
    IF FernetValid(t)
    THEN [i \in 1..(Len(t) - 2) |-> Plain(t[i + 1])]
    ELSE <<"InvalidToken">>

NotSuffix(x) == x # "M"

\* encrypt_string(str_value)
EncryptString(x) ==
    IF Len(x) > 0 /\ x[1] = "M" THEN x ELSE <<"M">> \o FernetEncrypt(x)

\* decrypt_string(encrypted_str); InvalidToken is raised as InvalidDataError
DecryptString(x) ==
    IF x = << >> THEN x
    ELSE IF x[1] # "M" THEN x
    ELSE IF FernetDecrypt(SelectSeq(x, NotSuffix)) = <<"InvalidToken">>
         THEN <<"InvalidDataError">>
         ELSE FernetDecrypt(SelectSeq(x, NotSuffix))

NoCrypt == [phase |-> "none", plain |-> << >>, enc |-> << >>, dec |-> << >>]
NoDefault == [called |-> FALSE, key |-> << >>, was |-> "__MISSING__",
              is |-> "__MISSING__", saved |-> FALSE]

-----------------------------------------------------------------------------
(* Raw store calls made by any caller: set(key, value) and remove(key) *)

StoreKeys == {<<"core", "k">>}
StoreValues == {"v1", "v2"}

\* set(key, value); a key that runs through a stored scalar raises
Set(key, value) ==
    /\ ~stopped
    /\ IF CanSet(data, key)
       THEN /\ data' = TreeSet(data, key, Leaf(value))
            /\ ScheduleSave
       ELSE UNCHANGED <<data, saveVars>>
    /\ probe' = [probe EXCEPT !.targets = @ \cup {key},
                              !.lastSet = IF CanSet(data, key) THEN key ELSE << >>,
                              !.rt = << >>,
                              !.sd = NoDefault, !.crypt = NoCrypt]
    /\ UNCHANGED <<fileVars, massVars, op, stopped, ctl, hist>>

\* remove(key); a key that is not stored returns before anything is done
Remove(key) ==
    /\ ~stopped
    /\ CanRemove(data, key)
    /\ data' = TreeRemove(data, key)
    /\ ScheduleSave
    /\ probe' = [probe EXCEPT !.lastSet = << >>,
                              !.rt = IF probe.lastSet = key THEN key ELSE << >>,
                              !.sd = NoDefault, !.crypt = NoCrypt]
    /\ UNCHANGED <<fileVars, massVars, op, stopped, ctl, hist>>

\* what is stored at key, "__MISSING__" when nothing is
StoredTag(d, key) == IF key \in DOMAIN d THEN d[key] ELSE "__MISSING__"

\* set_default(key, default_value): get(key, "__MISSING__"), and set() when
\* that returns the sentinel; an exception of get() or set() ends the call
SetDefault(key, value) ==
    /\ ~stopped
    /\ LET cur_value == Get(data, key, "__MISSING__")
           writes == cur_value = "__MISSING__" /\ CanSet(data, key)
       IN  /\ IF writes
              THEN /\ data' = TreeSet(data, key, Leaf(value))
                   /\ ScheduleSave
              ELSE UNCHANGED <<data, saveVars>>
           /\ probe' = [probe EXCEPT
                  !.targets = IF cur_value = "__MISSING__" THEN @ \cup {key} ELSE @,
                  !.lastSet = IF writes THEN key
                              ELSE IF cur_value = "__MISSING__" THEN << >> ELSE @,
                  !.rt = IF cur_value = "__MISSING__" THEN << >> ELSE @,
                  !.called = FALSE,
                  !.crypt = NoCrypt,
                  !.sd = [called |-> TRUE, key |-> key,
                          was |-> StoredTag(data, key),
                          is |-> StoredTag(data', key),
                          saved |-> writes]]
    /\ UNCHANGED <<fileVars, massVars, op, stopped, ctl, hist>>

\* the callers make no further call of set(), remove() or save(): from here on
\* only the loop's timers and save coroutines run
Quiesce ==
    /\ ~stopped
    /\ stopped' = TRUE
    /\ UNCHANGED <<data, saveVars, fileVars, massVars, op, auxVars>>

-----------------------------------------------------------------------------
(* _migrate: the load-time migration of the stored tree.  A migration state *)
(* is the tree, the changed flag and the exception that ended the run.      *)
(* The loops go over the items of a mapping in an arbitrary fixed order.    *)

CONF_SERVER_ID == "server_id"
CONF_OUTPUT_LIMITER == "output_limiter"

DelNode(d, p) == [q \in {x \in DOMAIN d : ~IsPrefix(p, x)} |-> d[q]]

\* mapping.get(key): None when the key is absent
Val(d, p) == IF p \in DOMAIN d THEN d[p] ELSE "null"

\* self._data.get(key, {}).items()
Items(d, p) == IF p \in DOMAIN d /\ d[p] = "MAP" THEN Keys(d, p) ELSE {}

Put(d, key, v) == TreeSet(d, key, Leaf(v))

\* ips.split(",")
SplitComma(v) == IF v = "ip1,ip2" THEN "[ip1;ip2]" ELSE "[ip1]"

\* instance_id.replace("slimproto", "squeezelite")
ReplaceSlim(iid) == IF iid = "slimproto" THEN "squeezelite" ELSE iid

\* provider entries without "domain" are popped
MigrateCorrupt(s) ==
    LET corrupt == {i \in Items(s.d, <<CONF_PROVIDERS>>) :
                        <<CONF_PROVIDERS, i, "domain">> \notin DOMAIN s.d}
        keep == {q \in DOMAIN s.d : \A i \in corrupt : ~IsPrefix(<<CONF_PROVIDERS, i>>, q)}
    IN  IF s.err # "none" THEN s
        ELSE [s EXCEPT !.d = [q \in keep |-> s.d[q]],
                       !.changed = @ \/ corrupt # {}]

\* values["ips"] becomes values["manual_discovery_ip_addresses"]
MigrateIps(s) ==
    LET hit == {i \in Items(s.d, <<CONF_PROVIDERS>>) :
                    /\ Truthy(s.d, <<CONF_PROVIDERS, i, "values">>)
                    /\ Truthy(s.d, <<CONF_PROVIDERS, i, "values", "ips">>)}
        old == {<<CONF_PROVIDERS, i, "values", "ips">> : i \in hit}
        new == {<<CONF_PROVIDERS, i, "values", "manual_discovery_ip_addresses">> : i \in hit}
    IN  IF s.err # "none" THEN s
        ELSE [s EXCEPT !.d = [q \in (DOMAIN s.d \ old) \cup new |->
                                IF q \in new
                                THEN SplitComma(s.d[<<CONF_PROVIDERS, q[2], "values", "ips">>])
                                ELSE s.d[q]],
                       !.changed = @ \/ hit # {}]

\* sample_rates of one player: a value that is no list is deleted without
\* setting changed, and the any(...) that follows iterates over it
MigrateSampleRatesOf(s, p) ==
    LET vals == <<CONF_PLAYERS, p, "values">>
        sr == <<CONF_PLAYERS, p, "values", "sample_rates">>
        kind == NodeKind(s.d[sr])
    IN  IF ~Truthy(s.d, vals) \/ ~Truthy(s.d, sr) THEN s
        ELSE IF kind \in {"int", "bool"}
             THEN [s EXCEPT !.d = DelNode(s.d, sr), !.err = "TypeError"]
        ELSE IF kind # "list"
             THEN [s EXCEPT !.d = DelNode(s.d, sr)]
        ELSE IF s.d[sr] = "[[44100,16]]"
             THEN [s EXCEPT !.d = Put(s.d, sr, "[44100;16]"), !.changed = TRUE]
             ELSE s

RECURSIVE MigrateSampleRates(_, _)
MigrateSampleRates(s, todo) ==
    IF s.err # "none" \/ todo = {} THEN s
    ELSE LET p == CHOOSE x \in todo : TRUE
         IN  MigrateSampleRates(MigrateSampleRatesOf(s, p), todo \ {p})

\* DSPConfig.output_limiter of one player: player["values"][...] = False
\* raises when the player config has no "values"
MigrateLimiterOf(s, p) ==
    LET ol == <<CONF_PLAYER_DSP, p, "output_limiter">>
        vals == <<CONF_PLAYERS, p, "values">>
        toPlayer == /\ Truthy(s.d, <<CONF_PLAYER_DSP, p, "enabled">>)
                    /\ Truthy(s.d, <<CONF_PLAYERS>>)
                    /\ Truthy(s.d, <<CONF_PLAYERS, p>>)
    IN  IF \/ Val(s.d, ol) = "null"
           \/ Val(s.d, <<CONF_PLAYER_DSP, p, "enabled">>) = "null"
           \/ Truthy(s.d, ol)
        THEN s
        ELSE IF toPlayer /\ vals \notin DOMAIN s.d
             THEN [s EXCEPT !.err = "KeyError"]
        ELSE IF toPlayer /\ s.d[vals] # "MAP"
             THEN [s EXCEPT !.err = "TypeError"]
        ELSE [s EXCEPT !.d = DelNode(IF toPlayer
                                     THEN Put(s.d, Append(vals, CONF_OUTPUT_LIMITER), "F")
                                     ELSE s.d, ol),
                       !.changed = TRUE]

RECURSIVE MigrateLimiter(_, _)
MigrateLimiter(s, todo) ==
    IF s.err # "none" \/ todo = {} THEN s
    ELSE LET p == CHOOSE x \in todo : TRUE
         IN  MigrateLimiter(MigrateLimiterOf(s, p), todo \ {p})

\* 'onboard_done' is set when a provider of a domain that is not builtin is stored
MigrateOnboard(s) ==
    LET builtin == {dom \in Manifests : Builtin(dom)}
        other == \E i \in Items(s.d, <<CONF_PROVIDERS>>) :
                    s.d[<<CONF_PROVIDERS, i, "domain">>] \notin builtin
    IN  IF s.err # "none" THEN s
        ELSE IF Val(s.d, <<CONF_ONBOARD_DONE>>) = "null" /\ other
             THEN [s EXCEPT !.d = Put(s.d, <<CONF_ONBOARD_DONE>>, "T"), !.changed = TRUE]
             ELSE s

\* slimproto --> squeezelite, for one provider entry
MigrateSlimOf(s, i) ==
    LET new == ReplaceSlim(i)
        moved == DelNode(s.d, <<CONF_PROVIDERS, i>>)
        entry == Subtree(s.d, <<CONF_PROVIDERS, i>>)
        renamed == Graft(Graft(entry, <<"instance_id">>, Leaf(new)),
                         <<"domain">>, Leaf("squeezelite"))
    IN  IF Val(s.d, <<CONF_PROVIDERS, i, "domain">>) # "slimproto" THEN s
        ELSE [s EXCEPT !.d = Graft(moved, <<CONF_PROVIDERS, new>>, renamed),
                       !.changed = TRUE]

RECURSIVE MigrateSlim(_, _)
MigrateSlim(s, todo) ==
    IF s.err # "none" \/ todo = {} THEN s
    ELSE LET i == CHOOSE x \in todo : TRUE
         IN  MigrateSlim(MigrateSlimOf(s, i), todo \ {i})

\* "hide_player" --> "hide_player_in_ui": changed is set for every player
\* whose "values" are not empty
MigrateHideOf(s, p) ==
    LET vals == <<CONF_PLAYERS, p, "values">>
        hide == <<CONF_PLAYERS, p, "values", "hide_player">>
    IN  IF ~Truthy(s.d, vals) THEN s
        ELSE [s EXCEPT !.d = IF Truthy(s.d, hide)
                             THEN Put(DelNode(s.d, hide),
                                      <<CONF_PLAYERS, p, "values", "hide_player_in_ui">>,
                                      "[always]")
                             ELSE DelNode(s.d, hide),
                       !.changed = TRUE]

RECURSIVE MigrateHide(_, _)
MigrateHide(s, todo) ==
    IF s.err # "none" \/ todo = {} THEN s
    ELSE LET p == CHOOSE x \in todo : TRUE
         IN  MigrateHide(MigrateHideOf(s, p), todo \ {p})

\* _migrate up to "if changed: await self._async_save()": every step works on
\* the state the step before it has left
Migrate(d) ==
    CHOOSE s7 \in
        {MigrateHide(s6, Items(s6.d, <<CONF_PLAYERS>>)) : s6 \in
        {MigrateSlim(s5, Items(s5.d, <<CONF_PROVIDERS>>)) : s5 \in
        {MigrateOnboard(s4) : s4 \in
        {MigrateLimiter(s3, Items(s3.d, <<CONF_PLAYER_DSP>>)) : s3 \in
        {MigrateSampleRates(s2, Items(s2.d, <<CONF_PLAYERS>>)) : s2 \in
        {MigrateIps(s1) : s1 \in
        {MigrateCorrupt([d |-> d, changed |-> FALSE, err |-> "none"])}}}}}}} : TRUE

-----------------------------------------------------------------------------
(* setup(), _load() and close()                                            *)

\* the controller after setup() of a process that found no file
Ready == [pc |-> "ready", source |-> "none", pre |-> EmptyTree, changed |-> FALSE,
          err |-> "none", task |-> 0, io |-> FALSE, pending |-> FALSE, quiet |-> FALSE]

\* the controller after __init__
New == [Ready EXCEPT !.pc = "new"]

NoProbe == [targets |-> {}, called |-> FALSE, key |-> << >>, default |-> "null",
            out |-> "null", lastSet |-> << >>, rt |-> << >>, fresh |-> FALSE,
            sd |-> NoDefault, crypt |-> NoCrypt]

\* json_loads accepts the text of any file that exists
ParsesAny(f) == f.exists

\* json_loads accepts the text of a file that was written to its end
Parses(f) == f.exists /\ f.complete

\* _load, one candidate file: open, read, json_loads and _migrate up to its
\* await.  FileNotFoundError and the decode error lead to the next candidate,
\* any exception of _migrate leaves _load and setup
LoadFile(f, name, miss) ==
    IF Parses(f)
    THEN \E m \in {Migrate(f.tree)} :
            LET found == [ctl EXCEPT !.source = name, !.pre = f.tree,
                                     !.changed = m.changed, !.err = m.err]
            IN  /\ data' = m.d
                /\ hist' = [hist EXCEPT !.synced = f.tree]
                /\ IF m.err # "none"
                   THEN /\ ctl' = [found EXCEPT !.pc = "raised"]
                        /\ UNCHANGED tasks
                   ELSE IF m.changed
                        THEN /\ ctl' = [found EXCEPT !.pc = "migrate_save", !.task = 1]
                             /\ tasks' = [tasks EXCEPT ![1] = "isfile"]
                        ELSE /\ ctl' = [found EXCEPT !.pc = "loaded"]
                             /\ UNCHANGED tasks
    ELSE /\ ctl' = [ctl EXCEPT !.pc = miss]
         /\ UNCHANGED <<data, tasks, hist>>

LoadPrimary ==
    /\ ctl.pc = "new"
    /\ LoadFile(primary, "primary", "load_backup")
    /\ UNCHANGED <<primary, backup, saveVars, massVars, op, stopped, probe>>

LoadBackup ==
    /\ ctl.pc = "load_backup"
    /\ LoadFile(backup, "backup", "loaded")
    /\ UNCHANGED <<primary, backup, saveVars, massVars, op, stopped, probe>>

\* _migrate: the awaited _async_save has returned, and _load returns
MigrateSaved ==
    /\ ctl.pc = "migrate_save"
    /\ tasks[ctl.task] = "free"
    /\ ctl' = [ctl EXCEPT !.pc = "loaded"]
    /\ UNCHANGED <<data, saveVars, fileVars, massVars, op, stopped, hist, probe>>

\* setup() after _load: set_default(CONF_SERVER_ID, uuid4().hex)
SetupDefaults ==
    /\ ctl.pc = "loaded"
    /\ IF Get(data, <<CONF_SERVER_ID>>, "__MISSING__") = "__MISSING__"
       THEN /\ data' = TreeSet(data, <<CONF_SERVER_ID>>, Leaf("id1"))
            /\ ScheduleSave
       ELSE UNCHANGED <<data, saveVars>>
    /\ ctl' = [ctl EXCEPT !.pc = "ready"]
    /\ UNCHANGED <<fileVars, massVars, op, stopped, hist, probe>>

\* the process dies and a new one is constructed: the files stay, everything
\* in memory is gone.  The run observed ends with the setup of the new process
Crash ==
    /\ ctl.pc \in {"loaded", "ready"}
    /\ ~hist.crashed
    /\ data' = EmptyTree
    /\ valueCache' = EmptyCache
    /\ timerHandle' = "none"
    /\ liveTimers' = 0
    /\ tasks' = [t \in 1..MaxTasks |-> "free"]
    /\ req' = NoReq
    /\ ctl' = New
    /\ stopped' = TRUE
    /\ hist' = [hist EXCEPT !.crashed = TRUE,
                            !.safe = hist.solo /\ hist.before.exists /\ hist.before.complete,
                            !.gens = {hist.before.tree, hist.synced}]
    /\ UNCHANGED <<primary, backup, massVars, op, probe>>

\* close(): return at once when _timer_handle is None, else await _async_save().
\* The server is stopping: no caller calls the store any more
CloseBegin ==
    /\ ctl.pc = "ready"
    /\ ~stopped
    /\ stopped' = TRUE
    /\ IF timerHandle = "none"
       THEN /\ ctl' = [ctl EXCEPT !.pc = "closed", !.io = FALSE,
                                  !.pending = FALSE,
                                  !.quiet = (FreeTasks = 1..MaxTasks)]
            /\ UNCHANGED tasks
       ELSE /\ FreeTasks # {}
            /\ LET t == CHOOSE x \in FreeTasks : TRUE
               IN  /\ tasks' = [tasks EXCEPT ![t] = "isfile"]
                   /\ ctl' = [ctl EXCEPT !.pc = "closing", !.task = t, !.io = TRUE,
                                         !.pending = (liveTimers > 0),
                                         !.quiet = (liveTimers = 0 /\ FreeTasks = 1..MaxTasks)]
    /\ UNCHANGED <<data, primary, backup, saveVars, massVars, op, hist, probe>>

\* close(): the awaited _async_save has returned
CloseReturn ==
    /\ ctl.pc = "closing"
    /\ tasks[ctl.task] = "free"
    /\ ctl' = [ctl EXCEPT !.pc = "closed"]
    /\ UNCHANGED <<data, saveVars, fileVars, massVars, op, stopped, hist, probe>>

\* get(key, default)
GetCall(key, default) ==
    /\ ctl.pc = "ready"
    /\ probe' = [probe EXCEPT !.called = TRUE, !.key = key, !.default = default,
                              !.out = Get(data, key, default),
                              !.fresh = (probe.rt = key),
                              !.sd = NoDefault, !.crypt = NoCrypt]
    /\ UNCHANGED <<data, saveVars, fileVars, massVars, op, stopped, ctl, hist>>

\* encrypt_string(x) of a caller that holds the plain string x
EncryptCall(x) ==
    /\ ctl.pc = "ready"
    /\ probe' = [probe EXCEPT !.called = FALSE, !.sd = NoDefault,
                              !.crypt = [phase |-> "enc", plain |-> x,
                                         enc |-> EncryptString(x), dec |-> << >>]]
    /\ UNCHANGED <<data, saveVars, fileVars, massVars, op, stopped, ctl, hist>>

\* decrypt_string of what encrypt_string has returned
DecryptCall ==
    /\ ctl.pc = "ready"
    /\ probe.crypt.phase = "enc"
    /\ probe' = [probe EXCEPT !.crypt.phase = "dec",
                              !.crypt.dec = DecryptString(probe.crypt.enc)]
    /\ UNCHANGED <<data, saveVars, fileVars, massVars, op, stopped, ctl, hist>>

-----------------------------------------------------------------------------
(* Persistence specification: raw store calls, the debounce timer and the  *)
(* save coroutines                                                         *)

SaveInit ==
    /\ data = EmptyTree
    /\ timerHandle = "none"
    /\ valueCache = EmptyCache
    /\ liveTimers = 0
    /\ tasks = [t \in 1..MaxTasks |-> "free"]
    /\ primary = NoFile
    /\ backup = NoFile
    /\ loaded = {}
    /\ available = {}
    /\ registered = [p \in PlayerIds |-> "none"]
    /\ op = [c \in {} |-> Idle]
    /\ req = NoReq
    /\ stopped = FALSE
    /\ ctl = Ready
    /\ hist = NoHist
    /\ probe = NoProbe

SaveNext ==
    \/ \E k \in StoreKeys, v \in StoreValues : Set(k, v)
    \/ \E k \in StoreKeys : Remove(k)
    \/ SaveNow
    \/ TimerFire
    \/ \E t \in 1..MaxTasks : AsyncSaveStep(t)
    \/ Quiesce

SaveSpec == SaveInit /\ [][SaveNext]_vars

-----------------------------------------------------------------------------
(* Lifecycle specification: one caller at a time drives the provider       *)
(* lifecycle while the debounce window is open (no timer fires)            *)

Init ==
    /\ data = EmptyTree
    /\ timerHandle = "none"
    /\ valueCache = EmptyCache
    /\ liveTimers = 0
    /\ tasks = [t \in 1..MaxTasks |-> "free"]
    /\ primary = NoFile
    /\ backup = NoFile
    /\ loaded = {}
    /\ available = {}
    /\ registered = [p \in PlayerIds |-> "none"]
    /\ op = [c \in {"c1"} |-> Idle]
    /\ req = NoReq
    /\ stopped = FALSE
    /\ ctl = Ready
    /\ hist = NoHist
    /\ probe = NoProbe

Next ==
    \/ \E c \in Callers, dom \in Domains, vals \in AddValues, sfx \in {"a"} :
            AddBegin(c, dom, vals, sfx)
    \/ \E c \in Callers : AddPersist(c)
    \/ \E c \in Callers, ok \in BOOLEAN : AddLoaded(c, ok)
    \/ \E c \in Callers, iid \in {"demo", "bi", "plr--a"}, vals \in UpdateValues :
            UpdateBegin(c, iid, vals)
    \/ \E c \in Callers : UpdateApply(c)
    \/ \E c \in Callers, ok \in BOOLEAN : UpdateLoaded(c, ok)
    \/ \E c \in Callers : UpdateUnloaded(c)
    \/ \E c \in Callers, iid \in {"demo", "bi", "plr--a"} : RemoveBegin(c, iid)
    \/ \E c \in Callers, drop \in BOOLEAN : RemoveUnloaded(c, drop)
    \/ \E c \in Callers : Return(c)
    \/ \E dom \in Manifests : CreateBuiltin(dom)

Spec == Init /\ [][Next]_vars

-----------------------------------------------------------------------------
(* Cascade specification: player providers, their players and DSP configs *)

CascadeNext ==
    \/ \E c \in Callers, sfx \in Suffixes : AddBegin(c, "plr", NoVals, sfx)
    \/ \E c \in Callers : AddPersist(c)
    \/ \E c \in Callers, ok \in BOOLEAN : AddLoaded(c, ok)
    \/ \E c \in Callers, iid \in {"plr--a", "plr--b"}, e \in {"T", "F"} :
            UpdateBegin(c, iid, [enabled |-> e, k |-> "keep"])
    \/ \E c \in Callers : UpdateApply(c)
    \/ \E c \in Callers, ok \in BOOLEAN : UpdateLoaded(c, ok)
    \/ \E c \in Callers : UpdateUnloaded(c)
    \/ \E c \in Callers, iid \in {"plr--a", "plr--b"} : RemoveBegin(c, iid)
    \/ \E c \in Callers, drop \in BOOLEAN : RemoveUnloaded(c, drop)
    \/ \E c \in Callers : Return(c)
    \/ \E p \in PlayerIds, iid \in {"plr--a", "plr--b"} : RegisterPlayer(p, iid)
    \/ \E p \in PlayerIds : SaveDspConfig(p)

CascadeSpec == Init /\ [][CascadeNext]_vars

-----------------------------------------------------------------------------
(* Dependency specification: a provider whose manifest depends on another *)
(* domain, next to the provider it depends on                             *)

DependNext ==
    \/ \E c \in Callers, dom \in {"demo", "dep", "gone"}, vals \in AddValues :
            AddBegin(c, dom, vals, "a")
    \/ \E c \in Callers : AddPersist(c)
    \/ \E c \in Callers, ok \in BOOLEAN : AddLoaded(c, ok)
    \/ \E c \in Callers, iid \in {"demo", "dep"}, e \in {"T", "F"} :
            UpdateBegin(c, iid, [enabled |-> e, k |-> "keep"])
    \/ \E c \in Callers : UpdateApply(c)
    \/ \E c \in Callers, ok \in BOOLEAN : UpdateLoaded(c, ok)
    \/ \E c \in Callers : UpdateUnloadDependent(c)
    \/ \E c \in Callers : UpdateUnloaded(c)
    \/ \E c \in Callers, iid \in {"demo", "dep"} : RemoveBegin(c, iid)
    \/ \E c \in Callers, drop \in BOOLEAN : RemoveUnloaded(c, drop)
    \/ \E c \in Callers : Return(c)

DependSpec == Init /\ [][DependNext]_vars

-----------------------------------------------------------------------------
(* Overlap specification: two callers whose lifecycle calls on one provider *)
(* run at the same time; a call gives way to the other at each await       *)

OverlapInit ==
    /\ data = EmptyTree
    /\ timerHandle = "none"
    /\ valueCache = EmptyCache
    /\ liveTimers = 0
    /\ tasks = [t \in 1..MaxTasks |-> "free"]
    /\ primary = NoFile
    /\ backup = NoFile
    /\ loaded = {}
    /\ available = {}
    /\ registered = [p \in PlayerIds |-> "none"]
    /\ op = [c \in {"c1", "c2"} |-> Idle]
    /\ req = NoReq
    /\ stopped = FALSE
    /\ ctl = Ready
    /\ hist = NoHist
    /\ probe = NoProbe

OverlapNext ==
    \/ \E c \in Callers : AddBegin(c, "demo", NoVals, "a")
    \/ \E c \in Callers : AddPersist(c)
    \/ \E c \in Callers, ok \in BOOLEAN : AddLoaded(c, ok)
    \/ \E c \in Callers, e \in {"T", "F"} :
            UpdateBegin(c, "demo", [enabled |-> e, k |-> "keep"])
    \/ \E c \in Callers : UpdateApply(c)
    \/ \E c \in Callers, ok \in BOOLEAN : UpdateLoaded(c, ok)
    \/ \E c \in Callers : UpdateUnloaded(c)
    \/ \E c \in Callers : RemoveBegin(c, "demo")
    \/ \E c \in Callers : RemoveUnloaded(c, TRUE)
    \/ \E c \in Callers : Return(c)

OverlapSpec == OverlapInit /\ [][OverlapNext]_vars

-----------------------------------------------------------------------------
(* Cache specification: two callers that read a provider's value one by one *)
(* and update the provider's config                                        *)

CacheNext ==
    \/ \E c \in Callers : AddBegin(c, "demo", NoVals, "a")
    \/ \E c \in Callers : AddPersist(c)
    \/ \E c \in Callers : AddLoaded(c, TRUE)
    \/ \E c \in Callers : UpdateBegin(c, "demo", [enabled |-> "keep", k |-> "v1"])
    \/ \E c \in Callers : UpdateApply(c)
    \/ \E c \in Callers : UpdateLoaded(c, TRUE)
    \/ \E c \in Callers : GetValueBegin(c, "demo")
    \/ \E c \in Callers : GetValueResolved(c)
    \/ \E c \in Callers : Return(c)

CacheSpec == OverlapInit /\ [][CacheNext]_vars

-----------------------------------------------------------------------------
(* Player specification: one player provider, its players, their configs  *)
(* and DSP configs, and remove_player_config                              *)

PlayerNext ==
    \/ \E c \in Callers : AddBegin(c, "plr", NoVals, "a")
    \/ \E c \in Callers : AddPersist(c)
    \/ \E c \in Callers : AddLoaded(c, TRUE)
    \/ \E c \in Callers, e \in {"T", "F"} :
            UpdateBegin(c, "plr--a", [enabled |-> e, k |-> "keep"])
    \/ \E c \in Callers : UpdateApply(c)
    \/ \E c \in Callers : UpdateLoaded(c, TRUE)
    \/ \E c \in Callers : UpdateUnloaded(c)
    \/ \E c \in Callers : Return(c)
    \/ \E p \in PlayerIds : RegisterPlayer(p, "plr--a")
    \/ \E p \in PlayerIds : SaveDspConfig(p)
    \/ \E c \in Callers, p \in PlayerIds, feature \in BOOLEAN, avail \in BOOLEAN :
            RemovePlayerBegin(c, p, feature, avail)
    \/ \E c \in Callers, ok \in BOOLEAN : RemovePlayerRemoved(c, ok)

PlayerSpec == Init /\ [][PlayerNext]_vars

-----------------------------------------------------------------------------
(* DSP specification: one caller reads and saves the player config and the *)
(* DSP config of a player whose provider is enabled and disabled           *)

DspPlayers == {"pl1"}
EqValues == {"0", "3"}

DspNext ==
    \/ \E c \in Callers : AddBegin(c, "plr", NoVals, "a")
    \/ \E c \in Callers : AddPersist(c)
    \/ \E c \in Callers : AddLoaded(c, TRUE)
    \/ \E c \in Callers, e \in {"T", "F"} :
            UpdateBegin(c, "plr--a", [enabled |-> e, k |-> "keep"])
    \/ \E c \in Callers : UpdateApply(c)
    \/ \E c \in Callers : UpdateLoaded(c, TRUE)
    \/ \E c \in Callers : UpdateUnloaded(c)
    \/ \E c \in Callers : Return(c)
    \/ \E p \in DspPlayers : RegisterPlayer(p, "plr--a")
    \/ \E p \in DspPlayers, key \in DeprecatedEqKeys, v \in EqValues :
            SetRawPlayerValue(p, key, v)
    \/ \E c \in Callers, p \in DspPlayers : GetPlayerDspConfig(c, p)
    \/ \E c \in Callers, p \in DspPlayers, valid \in BOOLEAN : SaveDspBegin(c, p, valid)
    \/ \E c \in Callers, ok \in BOOLEAN : SaveDspNotified(c, ok)
    \/ \E c \in Callers, p \in DspPlayers, dn \in DisplayNames :
            GetPlayerConfigBegin(c, p, dn)
    \/ \E c \in Callers : GetPlayerConfigEntries(c)

DspSpec == Init /\ [][DspNext]_vars

-----------------------------------------------------------------------------
(* Persistence under the scheduling of the event loop: a timer that is due *)
(* fires, and a save coroutine that can take its next step takes it        *)

SaveFairSpec ==
    /\ SaveSpec
    /\ WF_vars(TimerFire)
    /\ \A t \in 1..MaxTasks : WF_vars(AsyncSaveStep(t))

-----------------------------------------------------------------------------
(* Crash specification: the persistence specification with one crash of    *)
(* the process at any point, and the setup of the process that follows     *)

CrashKeys == {<<CONF_PLAYERS, "pl1", "values", "volume">>}

CrashNext ==
    \/ \E k \in CrashKeys, v \in StoreValues : Set(k, v)
    \/ SaveNow
    \/ TimerFire
    \/ \E t \in 1..MaxTasks : AsyncSaveStep(t)
    \/ Crash
    \/ LoadPrimary
    \/ LoadBackup
    \/ MigrateSaved
    \/ SetupDefaults

CrashSpec == SaveInit /\ [][CrashNext]_vars

-----------------------------------------------------------------------------
(* Shutdown specification: the persistence specification with close()      *)

CloseNext ==
    \/ \E k \in StoreKeys, v \in StoreValues : Set(k, v)
    \/ SaveNow
    \/ TimerFire
    \/ \E t \in 1..MaxTasks : AsyncSaveStep(t)
    \/ CloseBegin
    \/ CloseReturn

CloseSpec == SaveInit /\ [][CloseNext]_vars

-----------------------------------------------------------------------------
(* Setup specification: a process is constructed over a settings file that *)
(* an earlier version has written, and runs setup(); it may die and be     *)
(* started once more                                                       *)

ProviderOpts == {"none", "demo", "bi", "nodom", "slim", "ips"}
PlayerOpts == {"none", "novals", "vals", "hide", "rates_nested", "rates_str", "rates_int"}
DspOpts == {"none", "limiter_off", "limiter_off_dsp_off", "limiter_on"}

WithProvider(d, o) ==
    CASE o = "demo" -> Put(Put(d, <<CONF_PROVIDERS, "demo", "domain">>, "demo"),
                           <<CONF_PROVIDERS, "demo", "values", "k">>, "v1")
      [] o = "bi" -> Put(d, <<CONF_PROVIDERS, "bi", "domain">>, "bi")
      [] o = "nodom" -> Put(d, <<CONF_PROVIDERS, "gone", "type">>, "music")
      [] o = "slim" -> Put(Put(d, <<CONF_PROVIDERS, "slimproto", "domain">>, "slimproto"),
                           <<CONF_PROVIDERS, "slimproto", "instance_id">>, "slimproto")
      [] o = "ips" -> Put(Put(d, <<CONF_PROVIDERS, "demo", "domain">>, "demo"),
                          <<CONF_PROVIDERS, "demo", "values", "ips">>, "ip1,ip2")
      [] OTHER -> d

WithPlayer(d, o) ==
    LET values == <<CONF_PLAYERS, "pl1", "values">>
    IN  CASE o = "novals" -> Put(d, <<CONF_PLAYERS, "pl1", "player_id">>, "pl1")
          [] o = "vals" -> Put(d, Append(values, "volume"), "v1")
          [] o = "hide" -> Put(d, Append(values, "hide_player"), "T")
          [] o = "rates_nested" -> Put(d, Append(values, "sample_rates"), "[[44100,16]]")
          [] o = "rates_str" -> Put(d, Append(values, "sample_rates"), "44100;16")
          [] o = "rates_int" -> Put(d, Append(values, "sample_rates"), "44100")
          [] OTHER -> d

WithDsp(d, o) ==
    LET dsp == <<CONF_PLAYER_DSP, "pl1">>
    IN  CASE o = "limiter_off" -> Put(Put(d, Append(dsp, "output_limiter"), "F"),
                                      Append(dsp, "enabled"), "T")
          [] o = "limiter_off_dsp_off" -> Put(Put(d, Append(dsp, "output_limiter"), "F"),
                                              Append(dsp, "enabled"), "F")
          [] o = "limiter_on" -> Put(Put(d, Append(dsp, "output_limiter"), "T"),
                                     Append(dsp, "enabled"), "T")
          [] OTHER -> d

WithLeaf(d, key, o) == IF o = "absent" THEN d ELSE Put(d, key, o)

\* the trees a settings.json of an earlier version may hold
ProviderTrees == {WithProvider(EmptyTree, o) : o \in ProviderOpts}
PlayerTrees == {WithPlayer(t, o) : t \in ProviderTrees, o \in PlayerOpts}
DspTrees == {WithDsp(t, o) : t \in PlayerTrees, o \in DspOpts}
OnboardTrees == {WithLeaf(t, <<CONF_ONBOARD_DONE>>, o) : t \in DspTrees, o \in {"absent", "T"}}
StoredTrees == {WithLeaf(t, <<CONF_SERVER_ID>>, o) : t \in OnboardTrees, o \in {"absent", "id0"}}

SetupInit ==
    /\ data = EmptyTree
    /\ timerHandle = "none"
    /\ valueCache = EmptyCache
    /\ liveTimers = 0
    /\ tasks = [t \in 1..MaxTasks |-> "free"]
    /\ \E t \in StoredTrees : primary = Written(t)
    /\ backup = NoFile
    /\ loaded = {}
    /\ available = {}
    /\ registered = [p \in PlayerIds |-> "none"]
    /\ op = [c \in {} |-> Idle]
    /\ req = NoReq
    /\ stopped = TRUE
    /\ ctl = New
    /\ hist = NoHist
    /\ probe = NoProbe

SetupNext ==
    \/ LoadPrimary
    \/ LoadBackup
    \/ MigrateSaved
    \/ SetupDefaults
    \/ TimerFire
    \/ \E t \in 1..MaxTasks : AsyncSaveStep(t)
    \/ Crash

SetupSpec == SetupInit /\ [][SetupNext]_vars

-----------------------------------------------------------------------------
(* Domain specification: setup() loads a file that may hold a provider     *)
(* entry without a domain, then one caller adds, updates and removes       *)
(* providers and sets and removes raw provider values                      *)

\* set_raw_provider_config_value without its check of the main entry
RawProviderUnchecked(d, iid) == "none"

\* set_raw_provider_config_value: KeyError when no entity is stored
RawProviderRefusal(d, iid) ==
    IF Truthy(d, ProviderKey(iid)) THEN "none" ELSE "KeyError"

\* the key set_raw_provider_config_value writes to
RawProviderKey(iid, key) ==
    IF key \in BASE_KEYS THEN ProviderKey(iid) \o <<key>>
    ELSE ProviderKey(iid) \o <<"values", key>>

\* encrypt_string(value) of a raw value: a Fernet token with the suffix
EncryptedValue(v) == IF v = "v1" THEN "enc_v1" ELSE "enc_F"

\* set_raw_provider_config_value(provider_instance, key, value, encrypted)
SetRawProviderValue(c, iid, key, value, encrypted) ==
    /\ op[c].pc = "idle"
    /\ LET o == [Idle EXCEPT !.kind = "set_raw", !.iid = iid, !.before = data,
                             !.loadedBefore = loaded]
           v == IF encrypted THEN EncryptedValue(value) ELSE value
       IN  IF RawProviderRefusal(data, iid) # "none"
           THEN /\ op' = [op EXCEPT ![c] = Raise(o, RawProviderRefusal(data, iid))]
                /\ UNCHANGED <<data, saveVars>>
           ELSE /\ data' = TreeSet(data, RawProviderKey(iid, key), Leaf(v))
                /\ ScheduleSaves(1)
                /\ op' = [op EXCEPT ![c] = [o EXCEPT !.pc = "done", !.saves = 1]]
    /\ UNCHANGED <<fileVars, massVars, stopped, auxVars>>

\* remove_provider_config_value(instance_id, key)
RemoveProviderValue(c, iid, key) ==
    /\ op[c].pc = "idle"
    /\ LET o == [Idle EXCEPT !.kind = "remove_value", !.iid = iid, !.before = data,
                             !.loadedBefore = loaded, !.pc = "done"]
           conf_key == ProviderKey(iid) \o <<"values", key>>
       IN  IF Truthy(data, conf_key)
           THEN /\ data' = TreeRemove(data, conf_key)
                /\ ScheduleSaves(1)
                /\ op' = [op EXCEPT ![c] = [o EXCEPT !.saves = 1]]
           ELSE /\ op' = [op EXCEPT ![c] = o]
                /\ UNCHANGED <<data, saveVars>>
    /\ UNCHANGED <<fileVars, massVars, stopped, auxVars>>

DomainProviderOpts == {"none", "demo", "nodom"}
DomainTrees ==
    {WithProvider(WithProvider(EmptyTree, a), b) : a \in DomainProviderOpts, b \in {"none", "nodom"}}

RawInputs == {<<"k", "v1">>, <<"enabled", "F">>, <<"domain", "v1">>}

DomainInit ==
    /\ data = EmptyTree
    /\ timerHandle = "none"
    /\ valueCache = EmptyCache
    /\ liveTimers = 0
    /\ tasks = [t \in 1..MaxTasks |-> "free"]
    /\ \/ primary = NoFile /\ backup = NoFile
       \/ \E t \in DomainTrees :
            /\ primary = Written(t)
            /\ backup \in {NoFile, Written(EmptyTree)}
    /\ loaded = {}
    /\ available = {}
    /\ registered = [p \in PlayerIds |-> "none"]
    /\ op = [c \in {"c1"} |-> Idle]
    /\ req = NoReq
    /\ stopped = FALSE
    /\ ctl = New
    /\ hist = NoHist
    /\ probe = NoProbe

DomainNext ==
    \/ LoadPrimary
    \/ LoadBackup
    \/ MigrateSaved
    \/ SetupDefaults
    \/ \E t \in 1..MaxTasks : AsyncSaveStep(t)
    \/ /\ ctl.pc = "ready"
       /\ \/ \E c \in Callers, dom \in {"demo", "gone"}, vals \in {NoVals} :
                AddBegin(c, dom, vals, "a")
          \/ \E c \in Callers : AddPersist(c)
          \/ \E c \in Callers, ok \in BOOLEAN : AddLoaded(c, ok)
          \/ \E c \in Callers, iid \in {"demo", "gone"}, e \in {"T", "F"} :
                UpdateBegin(c, iid, [enabled |-> e, k |-> "keep"])
          \/ \E c \in Callers : UpdateApply(c)
          \/ \E c \in Callers, ok \in BOOLEAN : UpdateLoaded(c, ok)
          \/ \E c \in Callers : UpdateUnloaded(c)
          \/ \E c \in Callers, iid \in {"demo", "gone"} : RemoveBegin(c, iid)
          \/ \E c \in Callers, drop \in BOOLEAN : RemoveUnloaded(c, drop)
          \/ \E c \in Callers : Return(c)
          \/ \E c \in Callers, iid \in {"demo", "gone"}, kv \in RawInputs, enc \in BOOLEAN :
                SetRawProviderValue(c, iid, kv[1], kv[2], enc)
          \/ \E c \in Callers, iid \in {"demo", "gone"}, key \in {"k", "domain"} :
                RemoveProviderValue(c, iid, key)

DomainSpec == DomainInit /\ [][DomainNext]_vars

-----------------------------------------------------------------------------
(* Core specification: one caller saves the config of a core controller    *)

CONF_CORE == "core"
CoreDomains == {"streams", "music"}
CoreKey(dom) == <<CONF_CORE, dom>>

\* CoreConfig.to_raw()
CoreRaw(cfg) ==
    LET base == (<< >> :> "MAP") @@ (<<"domain">> :> cfg.domain) @@ (<<"values">> :> "MAP")
    IN  IF cfg.k = "none" THEN base ELSE base @@ (<<"values", "k">> :> cfg.k)

\* CoreConfig.parse(config_entries, self.get(core/<domain>, {"domain": domain}))
ParseCore(d, dom) ==
    [NoCfg EXCEPT !.iid = dom, !.domain = dom, !.type = "core",
                  !.k = Get(d, CoreKey(dom) \o <<"values", "k">>, "none")]

CoreValues == {[enabled |-> "keep", k |-> x] : x \in {"keep", "v1", "v2", "bad"}}

\* a config.update(values) that reports a change for every call
CoreAlwaysChanged(cfg, vals) == {"values/k"}

\* config.update(values): the changed keys
CoreChangedKeys(cfg, vals) ==
    IF vals.k # "keep" /\ vals.k # cfg.k THEN {"values/k"} ELSE {}

\* save_core_config up to the await in get_core_config: raw_conf is read
CoreSaveBegin(c, dom, vals) ==
    /\ op[c].pc = "idle"
    /\ op' = [op EXCEPT ![c] = [Idle EXCEPT !.kind = "save_core", !.iid = dom,
                    !.vals = vals, !.cfg = ParseCore(data, dom), !.before = data,
                    !.loadedBefore = loaded, !.pc = "core_entries"]]
    /\ UNCHANGED <<data, saveVars, fileVars, massVars, stopped, auxVars>>

\* get_core_config returned: config.update(values), config.validate(), the
\* return when nothing changed, and the call of controller.reload(config)
CoreSaveApply(c) ==
    /\ op[c].pc = "core_entries"
    /\ LET new == ApplyUpdate(op[c].cfg, op[c].vals)
       IN  op' = [op EXCEPT ![c] =
                    IF ~Valid(new) THEN Raise(@, "InvalidConfig")
                    ELSE IF CoreChangedKeys(op[c].cfg, op[c].vals) = {}
                    THEN [@ EXCEPT !.pc = "done", !.noop = TRUE]
                    ELSE [@ EXCEPT !.pc = "core_reloading", !.cfg = new, !.acts = 1]]
    /\ UNCHANGED <<data, saveVars, fileVars, massVars, stopped, auxVars>>

\* controller.reload(config) returned: self.set(core/<domain>, config.to_raw())
\* and the call of get_core_config; or it raised
CoreReloaded(c, ok) ==
    /\ op[c].pc = "core_reloading"
    /\ IF ok
       THEN /\ data' = TreeSet(data, CoreKey(op[c].iid), CoreRaw(op[c].cfg))
            /\ ScheduleSaves(1)
            /\ op' = [op EXCEPT ![c] = [@ EXCEPT !.pc = "core_final", !.saves = 1,
                                                 !.out = "reloaded"]]
       ELSE /\ op' = [op EXCEPT ![c] = Raise(@, "ReloadFailed")]
            /\ UNCHANGED <<data, saveVars>>
    /\ UNCHANGED <<fileVars, massVars, stopped, auxVars>>

\* return await self.get_core_config(domain)
CoreSaveFinal(c) ==
    /\ op[c].pc = "core_final"
    /\ op' = [op EXCEPT ![c] = [@ EXCEPT !.pc = "done",
                                         !.ret = CoreRaw(ParseCore(data, op[c].iid))]]
    /\ UNCHANGED <<data, saveVars, fileVars, massVars, stopped, auxVars>>

CoreNext ==
    \/ \E c \in Callers, dom \in CoreDomains, vals \in CoreValues :
            CoreSaveBegin(c, dom, vals)
    \/ \E c \in Callers : CoreSaveApply(c)
    \/ \E c \in Callers, ok \in BOOLEAN : CoreReloaded(c, ok)
    \/ \E c \in Callers : CoreSaveFinal(c)
    \/ \E c \in Callers : Return(c)

CoreSpec == Init /\ [][CoreNext]_vars

-----------------------------------------------------------------------------
(* Path specification: set(), remove(), set_default() and get() over       *)
(* nested keys and values of every JSON type, and the secret cipher        *)

PathKeys == {<<"a">>, <<"a", "b">>, <<"a", "b", "c">>}
PathValues == {"v1", "xbx", "null", "T", "0", "[b]"}

PathNext ==
    \/ \E k \in PathKeys, v \in PathValues : Set(k, v)
    \/ \E k \in PathKeys : Remove(k)
    \/ \E k \in PathKeys : SetDefault(k, "v2")
    \/ \E k \in PathKeys : GetCall(k, "dflt")
    \/ \E x \in PlainStrings : EncryptCall(x)
    \/ DecryptCall

PathSpec == SaveInit /\ [][PathNext]_vars

-----------------------------------------------------------------------------
(* Properties of the provider lifecycle *)

Stored(iid) == ProviderKey(iid) \in DOMAIN data

\* C1: when load_provider_config raises during an add, the add raises and the
\* store holds no entity under the instance id the add had allocated, so that
\* get_provider_config(instance_id) finds no config.
C1_AddRollsBack ==
    \A c \in Callers :
        (op[c].kind = "add" /\ op[c].err = "ActivationFailed") =>
            /\ op[c].pc = "raised"
            /\ ~Stored(op[c].iid)
            /\ ~Truthy(data, ProviderKey(op[c].iid))

C1_Witness ==
    \E c \in Callers :
        /\ op[c].kind = "add"
        /\ op[c].err = "ActivationFailed"
        /\ op[c].acts = 1
        /\ ProviderKey(op[c].iid) \notin DOMAIN op[c].before

\* C2: when config.validate() fails in an add or an update, the tree is the one
\* the call found, the call has scheduled no save and has not called
\* load_provider_config.
C2_InvalidLeavesNoTrace ==
    \A c \in Callers :
        op[c].err = "InvalidConfig" =>
            /\ op[c].kind \in {"add", "update"}
            /\ data = op[c].before
            /\ loaded = op[c].loadedBefore
            /\ op[c].saves = 0
            /\ op[c].acts = 0

C2_Witness ==
    \E c \in Callers :
        /\ op[c].kind = "update"
        /\ op[c].err = "InvalidConfig"
        /\ Stored(op[c].iid)

C4_PersistBeforeActivate ==
    \A c \in Callers :
        /\ op[c].pc \in {"add_loading", "upd_loading"} =>
                /\ Valid(op[c].cfg)
                /\ Subtree(data, ProviderKey(op[c].iid)) = ProviderRaw(op[c].cfg)
        /\ op[c].acts > 0 => op[c].saves > 0

C4_Witness ==
    \E c \in Callers :
        /\ op[c].pc = "upd_loading"
        /\ op[c].cfg.k = "v1"
        /\ Get(op[c].before, ProviderKey(op[c].iid) \o <<"values", "k">>, "none") = "none"

\* C5: save_provider_config for a stored provider, with nothing changed and
\* enabled matching the availability, writes nothing to the store, schedules no
\* save and calls neither load_provider_config nor unload_provider.
C5_NoopUpdateWritesNothing ==
    \A c \in Callers :
        op[c].noop =>
            /\ op[c].saves = 0
            /\ op[c].acts = 0
            /\ op[c].unloads = 0
            /\ data = op[c].before

\* C7: remove_provider_config raises for an instance id with no stored entity
\* and for a builtin provider, and then the store is unchanged, no save is
\* scheduled and no provider is unloaded; it goes on only for a stored entity
\* that is not builtin.
C7_RemoveRefused ==
    \A c \in Callers :
        op[c].kind = "remove" =>
            LET absent == ~Truthy(op[c].before, ProviderKey(op[c].iid))
                builtin == Builtin(ParseProvider(op[c].before, op[c].iid).domain)
            IN  /\ absent => op[c].err = "NotFound"
                /\ (~absent /\ builtin) => op[c].err = "RemovalForbidden"
                /\ op[c].err # "none" =>
                        /\ op[c].pc = "raised"
                        /\ data = op[c].before
                        /\ loaded = op[c].loadedBefore
                        /\ op[c].saves = 0
                        /\ op[c].unloads = 0

C7_Witness ==
    \E c \in Callers :
        /\ op[c].kind = "remove"
        /\ op[c].err = "RemovalForbidden"
        /\ op[c].iid \in loaded

\* C6: after remove_provider_config of a player provider, no player config
\* names the removed instance as its provider and no DSP config is stored for
\* a player whose config named it.
C6_RemoveCascade ==
    \A c \in Callers :
        (op[c].kind = "remove" /\ op[c].pc = "done" /\ op[c].cfg.type = "player") =>
            /\ PlayerConfsOf(data, op[c].iid) = {}
            /\ \A p \in PlayerConfsOf(op[c].before, op[c].iid) : DspKey(p) \notin DOMAIN data

-----------------------------------------------------------------------------
(* Properties of the debounced save *)

\* C8: the calls of save() made while a timer is pending leave one timer in
\* the loop, and one _async_save is started for the whole window: either the
\* timer is still pending or it has fired once.
C8_DebounceCoalesces ==
    req.kind = "sched" =>
        /\ liveTimers + req.tasks = 1
        /\ liveTimers = 1 <=> timerHandle = "pending"

C8_Witness ==
    /\ req.kind = "sched"
    /\ req.calls >= 2
    /\ req.tasks = 1
    /\ FreeTasks = 1..MaxTasks
    /\ primary = Written(data)

\* C9: save(immediate=True) cancels the pending timer, which never fires, and
\* starts one _async_save.
C9_SaveNowCancels ==
    req.kind = "now" =>
        /\ liveTimers = 0
        /\ timerHandle = "none"
        /\ req.tasks = 1

C9_Witness ==
    /\ req.kind = "now"
    /\ req.cancelled
    /\ FreeTasks = 1..MaxTasks
    /\ primary = Written(data)

\* C10: once the callers have stopped after a save was requested, the primary
\* file eventually holds the in-memory tree.
C10_EventuallyDurable ==
    (stopped /\ req.kind # "none") ~>
        (primary.exists /\ primary.complete /\ primary.tree = data)

C10_Witness ==
    /\ stopped
    /\ req.kind = "sched"
    /\ data # EmptyTree
    /\ backup.exists
    /\ primary = Written(data)

-----------------------------------------------------------------------------
(* Properties of the durable write and of Load *)

\* C11: after a durable write that ran without another write in between and
\* that found a primary file, the backup file is the primary file as that
\* write found it (one generation behind), and the primary file holds the
\* tree just written.
C11_BackupOneBehind ==
    (hist.done /\ hist.solo /\ hist.before.exists) =>
        /\ backup = hist.before
        /\ primary.exists /\ primary.complete /\ primary.tree = hist.synced

C11_Witness ==
    /\ hist.done /\ hist.solo
    /\ hist.before.complete
    /\ backup = hist.before
    /\ primary.complete
    /\ primary.tree # backup.tree

\* C12: during a durable write that runs alone and found a complete primary
\* file, the primary or the backup file holds a complete tree after every
\* step; and when the process crashes at any such step, the Load of the next
\* process parses one of the two files and finds the tree of the previous or
\* of the current generation.
C12_CrashSafe ==
    /\ (hist.solo /\ hist.before.exists /\ hist.before.complete) =>
            \/ primary.exists /\ primary.complete
            \/ backup.exists /\ backup.complete
    /\ (hist.crashed /\ hist.safe /\ ctl.pc \in {"migrate_save", "loaded", "raised", "ready"}) =>
            /\ ctl.source # "none"
            /\ ctl.pre \in hist.gens

C12_Witness ==
    /\ hist.crashed /\ hist.safe
    /\ ctl.pc = "migrate_save"
    /\ ctl.source = "backup"
    /\ primary.exists /\ ~primary.complete
    /\ tasks[1] = "isfile"

\* C13: Load takes the primary file when it exists and parses, and only
\* otherwise goes on to the backup file; it takes the backup file when that
\* exists and parses; when neither does, Load returns without an exception
\* and the store is empty.
C13_LoadFallback ==
    [][ /\ (ctl.pc = "new" /\ ctl'.pc # "new") =>
                IF primary.exists /\ primary.complete
                THEN ctl'.source = "primary" /\ ctl'.pre = primary.tree
                ELSE ctl'.pc = "load_backup" /\ data' = data
        /\ (ctl.pc = "load_backup" /\ ctl'.pc # "load_backup") =>
                IF backup.exists /\ backup.complete
                THEN ctl'.source = "backup" /\ ctl'.pre = backup.tree
                ELSE /\ ctl'.pc = "loaded"
                     /\ ctl'.source = "none"
                     /\ ctl'.err = "none"
                     /\ data' = EmptyTree
      ]_vars

C13_Witness ==
    /\ hist.crashed
    /\ ctl.pc = "loaded"
    /\ ctl.source = "none"
    /\ backup.exists /\ ~backup.complete
    /\ data = EmptyTree

-----------------------------------------------------------------------------
(* Properties of close() *)

\* C14: when close() was called with a debounce timer pending and has
\* returned, the primary file holds the in-memory tree, no timer is left in
\* the loop and no durable write is in progress.
C14_CloseFlushesAndCancels ==
    (ctl.pc = "closed" /\ ctl.pending) =>
        /\ liveTimers = 0
        /\ FreeTasks = 1..MaxTasks
        /\ primary.exists /\ primary.complete /\ primary.tree = data

\* C15: when close() is called while no timer is pending and no durable write
\* is in progress, close() performs no file I/O.
C15_CloseIdleDoesNoIO ==
    (ctl.pc \in {"closing", "closed"} /\ ctl.quiet) => ~ctl.io

-----------------------------------------------------------------------------
(* Properties of setup() and of the migration *)

\* C16: after setup(), when no timer is pending and no durable write is in
\* progress, the in-memory tree is the tree last loaded from or written to
\* the files.
C16_IdleMeansClean ==
    (ctl.pc = "ready" /\ liveTimers = 0 /\ FreeTasks = 1..MaxTasks) =>
        data = hist.synced

\* the trees the pipeline produces
MigratedTrees == {Migrate(t).d : t \in {x \in StoredTrees : Migrate(x).err = "none"}}

\* C17: when Load parses a tree that the migration has already produced, the
\* migration leaves the tree as it is, reports no change and starts no
\* durable write.
C17_MigrationIdempotent ==
    (ctl.source # "none" /\ ctl.pre \in MigratedTrees) =>
        /\ ctl.err = "none"
        /\ ~ctl.changed
        /\ ctl.pc # "migrate_save"
        /\ ctl.pc = "loaded" => data = ctl.pre

LaterStepsRan(d) ==
    /\ \A i \in Items(d, <<CONF_PROVIDERS>>) : Val(d, <<CONF_PROVIDERS, i, "domain">>) # "slimproto"
    /\ \A p \in Items(d, <<CONF_PLAYERS>>) :
            <<CONF_PLAYERS, p, "values", "hide_player">> \notin DOMAIN d

\* C18: when Load has parsed a file, no exception of a migration step leaves
\* Load, and the steps after it have run: no provider of domain slimproto and
\* no hide_player value is left in the tree.
C18_StepFailureContained ==
    ctl.source # "none" =>
        /\ ctl.pc # "raised"
        /\ ctl.err = "none"
        /\ LaterStepsRan(data)

\* C19: the migration starts its durable write only when it has changed the
\* tree, and when it has changed the tree the primary file holds the migrated
\* tree when Load returns.
C19_MigrationWritesIffChanged ==
    /\ ctl.pc = "migrate_save" => data # ctl.pre
    /\ (ctl.pc = "loaded" /\ ctl.source # "none" /\ data # ctl.pre) =>
            primary.exists /\ primary.complete /\ primary.tree = data

-----------------------------------------------------------------------------
(* Properties of the path store *)

\* C20: get(p, default) returns default, and raises nothing, for a key p that
\* no set() was called with and that no key of a set() runs through.
C20_GetUnwrittenReturnsDefault ==
    (/\ probe.called
     /\ probe.key \notin probe.targets
     /\ ~\E k \in probe.targets : IsPrefix(probe.key, k)) =>
        probe.out = probe.default

\* C21: a get(p, default) that directly follows a set(p, v) that has stored v
\* and the remove(p) after it returns the default
C21_SetRemoveRoundTrip ==
    (probe.called /\ probe.fresh) => probe.out = probe.default

C21_Witness ==
    /\ probe.called
    /\ probe.fresh
    /\ probe.key = <<"a", "b">>
    /\ probe.out = "dflt"

\* C22: a set_default(path, value) that finds something stored at path, an
\* explicitly stored null included, leaves it as it is and schedules no save
C22_SetDefaultKeepsStored ==
    (probe.sd.called /\ probe.sd.was # "__MISSING__") =>
        (probe.sd.is = probe.sd.was /\ ~probe.sd.saved)

\* C23: decrypt_string(encrypt_string(x)) is x for every plain string x
C23_DecryptEncrypt ==
    probe.crypt.phase = "dec" => probe.crypt.dec = probe.crypt.plain

\* C24: the instance id an add allocates is not the key of a provider entity
\* that is stored when the add is called
C24_InstanceIdUnique ==
    \A c \in Callers :
        (op[c].kind = "add" /\ op[c].iid # "none") =>
            ProviderKey(op[c].iid) \notin DOMAIN op[c].before

\* C25: of a domain whose manifest forbids multiple instances at most one
\* provider entity is stored, under the domain as its instance id, and an add
\* of the domain while one is stored is rejected and leaves the store as it is
C25_SingleInstance ==
    /\ \A dom \in Manifests :
            ~MultiInstance(dom) => ProviderConfigsOf(data, dom) \subseteq {dom}
    /\ \A c \in Callers :
            (/\ op[c].kind = "add"
             /\ op[c].cfg.domain \in Manifests
             /\ ~MultiInstance(op[c].cfg.domain)
             /\ ProviderConfigsOf(op[c].before, op[c].cfg.domain) # {}) =>
                (/\ op[c].pc = "raised"
                 /\ op[c].err = "MultiInstanceForbidden"
                 /\ data = op[c].before
                 /\ op[c].saves = 0)

C25_Witness ==
    \E c \in Callers :
        /\ op[c].kind = "add"
        /\ op[c].cfg.domain = "demo"
        /\ op[c].err = "MultiInstanceForbidden"
        /\ ProviderConfigsOf(data, "demo") = {"demo"}
        /\ ParseProvider(data, "demo").k = "v1"

\* C26: an add of a domain whose manifest depends on another domain raises
\* dependency-unmet exactly when no provider of that domain is active, an add
\* of an unknown domain raises too, and an add that has raised either has
\* left the store and the providers as they were and has activated nothing
C26_DependencyChecked ==
    \A c \in Callers :
        op[c].kind = "add" =>
            /\ op[c].cfg.domain \notin Manifests =>
                    (op[c].pc = "raised" /\ op[c].err = "UnknownDomain")
            /\ (op[c].cfg.domain \in Manifests /\ DependsOn(op[c].cfg.domain) # "none") =>
                    ((op[c].pc = "raised" /\ op[c].err = "DependencyUnmet")
                        <=> ~GetProvider(DependsOn(op[c].cfg.domain)))
            /\ op[c].err \in {"UnknownDomain", "DependencyUnmet"} =>
                    (/\ data = op[c].before
                     /\ loaded = op[c].loadedBefore
                     /\ op[c].saves = 0
                     /\ op[c].acts = 0)

C26_Witness ==
    \E c \in Callers :
        /\ op[c].kind = "add"
        /\ op[c].cfg.domain = "dep"
        /\ op[c].err = "DependencyUnmet"
        /\ Truthy(data, ProviderKey("demo"))
        /\ "demo" \notin available

\* C27: when no lifecycle call is in progress, every active provider has a
\* stored config, as it has after the calls made one after the other in
\* either order
C27_NoHalfPersistedState ==
    (\A c \in Callers : op[c].pc \in {"idle", "done", "raised"}) =>
        \A iid \in loaded : Truthy(data, ProviderKey(iid))

\* C28: a get_provider_config_value that has returned has returned the value
\* resolved from the tree as it was when the call was made
C28_NoStaleCachedValue ==
    \A c \in Callers :
        (op[c].kind = "get_value" /\ op[c].pc = "done") =>
            op[c].out =
                (IF Get(op[c].before, ProviderKey(op[c].iid) \o <<"values", "k">>, "none") = "none"
                 THEN "dflt"
                 ELSE Get(op[c].before, ProviderKey(op[c].iid) \o <<"values", "k">>, "none"))

\* C29: on a store that holds nothing else, the add of a single-instance
\* domain stores the entity under the domain as instance id; the update
\* after it that enables the provider calls load_provider_config exactly
\* once; the remove after that leaves get(providers/<domain>, default) at
\* the default
C29_EndToEnd ==
    \A c \in Callers :
        /\ (/\ op[c].kind = "add"
            /\ op[c].pc = "done"
            /\ op[c].cfg.domain = "demo"
            /\ Keys(op[c].before, <<CONF_PROVIDERS>>) = {}) =>
                (op[c].iid = "demo" /\ Truthy(data, ProviderKey("demo")))
        /\ (/\ op[c].kind = "update"
            /\ op[c].pc = "done"
            /\ op[c].iid = "demo"
            /\ op[c].vals = [enabled |-> "T", k |-> "keep"]
            /\ Keys(op[c].before, <<CONF_PROVIDERS>>) = {"demo"}
            /\ op[c].loadedBefore = {"demo"}) =>
                op[c].acts = 1
        /\ (/\ op[c].kind = "remove"
            /\ op[c].pc = "done"
            /\ op[c].iid = "demo") =>
                Get(data, ProviderKey("demo"), "dflt") = "dflt"

\* C30: when remove_player_config(player_id) has returned, neither the player
\* config nor the DSP config of player_id is stored; when it has raised because
\* the player is available and its provider cannot remove players, the store
\* is as it was
C30_RemovePlayerConfig ==
    \A c \in Callers :
        op[c].kind = "remove_player" =>
            /\ op[c].pc = "done" =>
                    (/\ PlayerKey(op[c].iid) \notin DOMAIN data
                     /\ DspKey(op[c].iid) \notin DOMAIN data)
            /\ op[c].err = "ActionUnavailable" => data = op[c].before

C30_Witness ==
    \E c \in Callers :
        /\ op[c].kind = "remove_player"
        /\ op[c].pc = "done"
        /\ PlayerKey(op[c].iid) \in DOMAIN op[c].before
        /\ DspKey(op[c].iid) \in DOMAIN op[c].before

\* C31: while an update that disables a provider runs and when it has returned,
\* the provider has not been unloaded as long as a provider that depends on
\* its domain is loaded; when the update has returned none of these is loaded
C31_DependentsUnloadedFirst ==
    \A c \in Callers :
        (/\ op[c].kind = "update"
         /\ op[c].pc \in {"upd_unloading", "done"}
         /\ ~op[c].noop
         /\ ~op[c].cfg.enabled) =>
            /\ (op[c].iid \in op[c].loadedBefore /\ op[c].iid \notin loaded) =>
                    {i \in loaded : DependsOn(InstanceDomain(i)) = op[c].cfg.domain} = {}
            /\ op[c].pc = "done" =>
                    {i \in loaded : DependsOn(InstanceDomain(i)) = op[c].cfg.domain} = {}

C31_Witness ==
    \E c \in Callers :
        /\ op[c].kind = "update"
        /\ op[c].pc = "done"
        /\ ~op[c].noop
        /\ op[c].iid = "demo"
        /\ ~op[c].cfg.enabled
        /\ op[c].loadedBefore = {"demo", "dep"}
        /\ loaded = {}

\* C32 (as stated): when an update that disables a player provider has
\* returned, no player config whose provider is the instance is stored
C32_PlayerConfigsRemoved ==
    \A c \in Callers :
        (/\ op[c].kind = "update"
         /\ op[c].pc = "done"
         /\ ~op[c].noop
         /\ ~op[c].cfg.enabled
         /\ op[c].cfg.type = "player") =>
            PlayerConfsOf(data, op[c].iid) = {}

\* C32 (amended): when an update that disables a player provider has returned,
\* no player of the provider is left in the player manager, and the player
\* configs of the provider are stored as they were
C32_PlayersUnregistered ==
    \A c \in Callers :
        (/\ op[c].kind = "update"
         /\ op[c].pc = "done"
         /\ ~op[c].noop
         /\ ~op[c].cfg.enabled
         /\ op[c].cfg.type = "player") =>
            /\ \A p \in PlayerIds : registered[p] # op[c].iid
            /\ Subtree(data, <<CONF_PLAYERS>>) = Subtree(op[c].before, <<CONF_PLAYERS>>)

C32_Witness ==
    \E c \in Callers :
        /\ op[c].kind = "update"
        /\ op[c].pc = "done"
        /\ ~op[c].noop
        /\ ~op[c].cfg.enabled
        /\ op[c].cfg.type = "player"
        /\ PlayerConfsOf(data, op[c].iid) = PlayerIds
        /\ \A p \in PlayerIds : registered[p] = "none"

\* C33: a provider whose manifest does not allow disabling is never stored
\* with enabled false
C33_NeverStoredDisabled ==
    \A iid \in Keys(data, <<CONF_PROVIDERS>>) :
        ~AllowDisable(ParseProvider(data, iid).domain) =>
            ParseProvider(data, iid).enabled

\* C38: no step of a durable write finds the file it is about to remove or
\* rename gone, and no step leaves primary and backup both without a
\* complete tree when one of them held one
C38_OverlappingWritesSafe ==
    [][/\ \A t \in 1..MaxTasks :
            /\ tasks[t] = "remove" => backup.exists
            /\ tasks[t] = "rename" => primary.exists
       /\ (primary.complete \/ backup.complete) =>
              (primary'.complete \/ backup'.complete)]_vars

\* C39: once the tree was loaded from the backup file because the primary
\* file did not parse, primary or backup holds a complete tree in every state
C39_FallbackKeepsParseableFile ==
    ctl.source = "backup" => (primary.complete \/ backup.complete)

\* C34: get_player_dsp_config returns the stored DSP config without writing
\* when one is stored; else, when a deprecated bass, mid or treble value is not
\* 0, it stores and returns an enabled config with one tone control filter
\* that carries the three old values and every deprecated value is 0
\* afterwards, so that the next call finds the stored config; else it returns
\* the disabled default and the store is unchanged
C34_LazyDspMigration ==
    \A c \in Callers :
        (op[c].kind = "get_dsp" /\ op[c].pc = "done") =>
            LET p == op[c].iid
                b == op[c].before
                WasEq(key) == Get(b, PlayerKey(p) \o <<"values", key>>,
                                Get(b, PlayerKey(p) \o <<key>>, "0"))
                NowEq(key) == Get(data, PlayerKey(p) \o <<"values", key>>,
                                Get(data, PlayerKey(p) \o <<key>>, "0"))
            IN  IF Truthy(b, DspKey(p))
                THEN /\ data = b
                     /\ op[c].saves = 0
                     /\ op[c].ret = Subtree(b, DspKey(p))
                ELSE IF \E key \in DeprecatedEqKeys : WasEq(key) # "0"
                THEN /\ Truthy(data, DspKey(p))
                     /\ Subtree(data, DspKey(p)) = op[c].ret
                     /\ op[c].ret[<<"enabled">>] = "T"
                     /\ Keys(op[c].ret, <<"filters">>) = {"0"}
                     /\ op[c].ret[<<"filters", "0", "type">>] = "tone_control"
                     /\ op[c].ret[<<"filters", "0", "bass_level">>] = WasEq(CONF_DEPRECATED_EQ_BASS)
                     /\ op[c].ret[<<"filters", "0", "mid_level">>] = WasEq(CONF_DEPRECATED_EQ_MID)
                     /\ op[c].ret[<<"filters", "0", "treble_level">>] = WasEq(CONF_DEPRECATED_EQ_TREBLE)
                     /\ \A key \in DeprecatedEqKeys : NowEq(key) = "0"
                ELSE /\ data = b
                     /\ op[c].saves = 0
                     /\ op[c].ret[<<"enabled">>] = "F"
                     /\ Keys(op[c].ret, <<"filters">>) = {}

C34_Witness ==
    \E c \in Callers :
        /\ op[c].kind = "get_dsp"
        /\ op[c].pc = "done"
        /\ op[c].out = "stored"
        /\ op[c].ret[<<"enabled">>] = "T"
        /\ <<"filters", "0", "bass_level">> \in DOMAIN op[c].ret
        /\ op[c].ret[<<"filters", "0", "bass_level">>] = "3"
        /\ op[c].ret[<<"filters", "0", "mid_level">>] = "0"

\* C35: a save_dsp_config whose validation failed has stored nothing, notified
\* nobody and emitted no event; while the player is notified and afterwards
\* the config is stored; the event is emitted only by a call whose
\* notification returned without error
C35_ValidateStoreNotifyEmit ==
    \A c \in Callers :
        op[c].kind = "save_dsp" =>
            /\ op[c].err = "InvalidConfig" =>
                    /\ data = op[c].before
                    /\ op[c].saves = 0
                    /\ op[c].acts = 0
                    /\ op[c].out = "none"
            /\ op[c].acts > 0 =>
                    /\ op[c].saves = 1
                    /\ Truthy(data, DspKey(op[c].iid))
                    /\ Subtree(data, DspKey(op[c].iid)) = DspRaw
            /\ op[c].out = "dsp_updated" =>
                    /\ op[c].pc = "done"
                    /\ op[c].acts = 1
                    /\ op[c].err = "none"
            /\ op[c].pc = "done" => op[c].out = "dsp_updated"

C35_Witness ==
    /\ \E c \in Callers :
            /\ op[c].kind = "save_dsp"
            /\ op[c].pc = "done"
            /\ op[c].out = "dsp_updated"
            /\ ~Truthy(op[c].before, DspKey(op[c].iid))
    /\ timerHandle = "pending"

\* C37: when get_player_config has returned, the in-memory tree is what it
\* was when the call was made
C37_GetPlayerConfigReadOnly ==
    \A c \in Callers :
        (op[c].kind = "get_player" /\ op[c].pc = "done") => data = op[c].before

\* C36: once setup() has loaded the store, every entry stored under providers
\* has a domain field, whatever add, update, remove, raw value set and raw
\* value remove did since; and a raw value set that raised KeyError found no
\* entity stored for the instance and left the store as it was
C36_ProvidersHaveDomain ==
    /\ ctl.pc = "ready" =>
            \A iid \in Keys(data, <<CONF_PROVIDERS>>) :
                <<CONF_PROVIDERS, iid, "domain">> \in DOMAIN data
    /\ \A c \in Callers :
            op[c].kind = "set_raw" =>
                /\ op[c].err = "KeyError" <=>
                        <<CONF_PROVIDERS, op[c].iid>> \notin DOMAIN op[c].before
                /\ op[c].err = "KeyError" => data = op[c].before

C36_Witness ==
    /\ ctl.pc = "ready"
    /\ <<CONF_PROVIDERS, "gone", "type">> \in DOMAIN ctl.pre
    /\ <<CONF_PROVIDERS, "demo", "domain">> \in DOMAIN data
    /\ \E c \in Callers :
            /\ op[c].kind = "set_raw"
            /\ op[c].iid = "gone"
            /\ op[c].err = "KeyError"

\* C40: a save_core_config whose validation failed or whose reload raised has
\* left the store unchanged and scheduled no save; a call whose values hold
\* no effective delta has called no reload and stored nothing; and the
\* config is stored only by a call whose reload returned
C40_CorePersistsAfterReload ==
    \A c \in Callers :
        op[c].kind = "save_core" =>
            LET stored == Get(op[c].before, <<CONF_CORE, op[c].iid, "values", "k">>, "none")
                delta == op[c].vals.k # "keep" /\ op[c].vals.k # stored
            IN  /\ op[c].err \in {"InvalidConfig", "ReloadFailed"} =>
                        /\ data = op[c].before
                        /\ op[c].saves = 0
                        /\ op[c].before = EmptyTree => timerHandle = "none"
                /\ ~delta =>
                        /\ op[c].acts = 0
                        /\ op[c].saves = 0
                        /\ data = op[c].before
                /\ (op[c].saves > 0 \/ data # op[c].before) =>
                        /\ op[c].out = "reloaded"
                        /\ op[c].acts = 1
                /\ (op[c].pc = "done" /\ delta) =>
                        /\ Get(data, <<CONF_CORE, op[c].iid, "values", "k">>, "none") = op[c].vals.k
                        /\ timerHandle = "pending"

C40_Witness ==
    \E c \in Callers :
        /\ op[c].kind = "save_core"
        /\ op[c].err = "ReloadFailed"
        /\ op[c].acts = 1
        /\ op[c].vals.k = "v2"
        /\ Get(data, <<CONF_CORE, op[c].iid, "values", "k">>, "none") = "v1"

====
